---- MODULE Spec2Model ----
(***************************************************************************)
(* Verification model of the agricultural assistant of mohitagr18/LLMOPS:  *)
(*   - the free-text extractors of the detectors (plant_pest_detector.py,  *)
(*     plant_pest_detector2.py, celebrity_detector/app/plant_detector.py), *)
(*   - the agentic menu dispatcher (qa_engine_agentic.py) driven by the    *)
(*     web app (app.py),                                                   *)
(*   - the class based QA engine (qa_engine.py).                           *)
(* Texts are sequences of tokens; layout whitespace between the parts of a *)
(* formatted text is left out, every other part is kept in order.          *)
(***************************************************************************)
EXTENDS Integers, Sequences, FiniteSets, TLC

VARIABLES
    \* ---- detector extraction (pure functions applied to a classifier text)
    content,                \* the classifier's text: a sequence of lines
    extracted,              \* result of the last extractor applied to content
    \* ---- web app session state (app.py, st.session_state)
    stage,                  \* 'upload' | 'details' | 'recommendations'
    detection_results,      \* None or the stored detection record
    context,                \* None or the Session Context (dict of create_agentic_session)
    treatment,              \* None or the stored treatment text
    conversation_history,   \* the Conversation Log: sequence of <<label, answer>>
    \* ---- the process around the session state
    chats,                  \* number of chat channels opened so far (object identity)
    sessions,               \* history: sessions[sid] = the channel stored at creation
    sent,                   \* history: every conversational request as [sid, chan]
    lastCall,               \* history: the last dispatcher call (what, outcome, events)
    \* ---- the command-line harness (test_agentic_flow.py)
    pc,                     \* 'start' | 'menu' | 'done' | 'crashed'
    ncalls,                 \* dispatcher calls made by the menu loop so far
    prevOp,                 \* history: the dispatcher call before the last one
    \* ---- AgriQAEngine (qa_engine.py)
    engine,                 \* the fields of one AgriQAEngine object
    engineCall              \* history: the last AgriQAEngine call

vars == <<content, extracted, stage, detection_results, context, treatment,
          conversation_history, chats, sessions, sent, lastCall, pc, ncalls, prevOp,
          engine, engineCall>>

extractVars == <<content, extracted>>
appVars     == <<stage, detection_results, context, treatment,
                 conversation_history, chats, sessions, sent, lastCall>>
harnessVars == <<pc, ncalls, prevOp>>
engineVars  == <<engine, engineCall>>

\* Python's None where the other values are records
None == [none |-> TRUE]
\* an absent text
NoText == <<>>

-----------------------------------------------------------------------------
(* Bounds of the model *)

MaxLines    == 2    \* lines of a classifier text
MaxLog      == 2    \* entries of the web app's conversation log
MaxSessions == 2    \* session contexts created in one run of the web app
MaxCalls    == 3    \* dispatcher calls in one run of the command-line harness
MaxEngineCalls == 3 \* AgriQAEngine calls between two resets
MaxItems    == 2    \* results in the answer of a product search, and the result cap

-----------------------------------------------------------------------------
(* Sequence helpers *)

RECURSIVE Flatten(_)
Flatten(ss) == IF ss = <<>> THEN <<>> ELSE Head(ss) \o Flatten(Tail(ss))

IsPrefix(s, t) == Len(s) <= Len(t) /\ SubSeq(t, 1, Len(s)) = s

Last(s) == s[Len(s)]

SelectIdx(s, x) == {i \in 1..Len(s) : s[i] = x}

\* index of the first occurrence of x in s, 0 when absent
IndexOf(s, x) == IF SelectIdx(s, x) = {} THEN 0
                 ELSE CHOOSE i \in SelectIdx(s, x) : \A j \in SelectIdx(s, x) : i <= j

\* s with only the elements in the set keep, order kept
RECURSIVE Restrict(_, _)
Restrict(s, keep) ==
    IF s = <<>> THEN <<>>
    ELSE IF Head(s) \in keep THEN <<Head(s)>> \o Restrict(Tail(s), keep)
    ELSE Restrict(Tail(s), keep)

\* x occurs in s, and the elements of order occur in s in that relative order
RECURSIVE InOrder(_, _)
InOrder(s, order) ==
    IF order = <<>> THEN TRUE
    ELSE IF s = <<>> THEN FALSE
    ELSE IF Head(s) = Head(order) THEN InOrder(Tail(s), Tail(order))
    ELSE InOrder(Tail(s), order)

-----------------------------------------------------------------------------
(* Classifier texts.  A text is a sequence of lines; a line is a head (the  *)
(* text up to and including its first colon, or the whole line when it has  *)
(* no colon) followed by the tokens of the rest of the line.                *)

Heads == {"- **Plant Species**:", "- **Disease Name**:", "- **disease name**:",
          "- **Insect Species**:", "- **Health Status**:", "API request failed:",
          "Insect Species:", "Plant Species:"}

Vals == {<<>>,
         <<" ", "Tomato">>,
         <<" ", "Early Blight", " ">>,
         <<" ", "*", "Aphid", "*">>,
         <<" ", "N/A">>,
         <<" ", "None">>,
         <<" ", "Unknown">>}

Lines == [head : Heads, val : Vals]

Texts == UNION {[1..n -> Lines] : n \in 0..MaxLines}

\* str.lower() of one token
LowerTok(t) ==
    CASE t = "- **Plant Species**:"  -> "- **plant species**:"
      [] t = "- **Disease Name**:"   -> "- **disease name**:"
      [] t = "- **Insect Species**:" -> "- **insect species**:"
      [] t = "Insect Species:"       -> "insect species:"
      [] t = "Plant Species:"        -> "plant species:"
      [] t = "- **Health Status**:"  -> "- **health status**:"
      [] t = "API request failed:"   -> "api request failed:"
      [] t = "Tomato"                -> "tomato"
      [] t = "LOW"                   -> "low"
      [] t = "High"                  -> "high"
      [] t = "Early Blight"          -> "early blight"
      [] t = "Aphid"                 -> "aphid"
      [] t = "N/A"                   -> "n/a"
      [] t = "None"                  -> "none"
      [] t = "Unknown"               -> "unknown"
      [] OTHER                       -> t

\* str.lower() of a token sequence
Lower(s) == [i \in DOMAIN s |-> LowerTok(s[i])]

\* str.strip(): leading and trailing whitespace tokens removed
RECURSIVE LStrip(_)
LStrip(s) == IF s # <<>> /\ Head(s) = " " THEN LStrip(Tail(s)) ELSE s

RECURSIVE RStrip(_)
RStrip(s) == IF s # <<>> /\ Last(s) = " " THEN RStrip(SubSeq(s, 1, Len(s) - 1)) ELSE s

Strip(s) == RStrip(LStrip(s))

\* str.replace("*", "")
RemoveStars(s) == Restrict(s, {s[i] : i \in DOMAIN s} \ {"*"})

\* content.startswith("Error") or content.startswith("API"); no head of the
\* model starts with "Error"
StartsWithErrorOrAPI(text) == text # <<>> /\ text[1].head = "API request failed:"

\* `phrase in line_lower` for the phrases the second detector looks for
ContainsPhrase(line, phrase) ==
    CASE phrase = "insect species" -> LowerTok(line.head) \in {"- **insect species**:",
                                                               "insect species:"}
      [] phrase = "disease name"   -> LowerTok(line.head) = "- **disease name**:"
      [] phrase = "plant species"  -> LowerTok(line.head) \in {"- **plant species**:",
                                                               "plant species:"}
      [] OTHER                     -> FALSE

Unidentified == <<"Unidentified">>
ErrorId      == <<"Error">>
NoMatch      == <<>>       \* a line that makes the scan go on (never a returned value)

PREFIX_PLANT   == "- **plant species**:"
PREFIX_DISEASE == "- **disease name**:"
PREFIX_INSECT  == "- **insect species**:"

-----------------------------------------------------------------------------
(* plant_pest_detector.py: PlantPestDetector.extract_primary_id             *)

\* the body of the for loop for one line: the returned value, or NoMatch
primary_id_line(line) ==
    LET line_lower == LowerTok(line.head)
        value      == Strip(line.val)              \* line.split(":", 1)[1].strip()
    IN  IF line_lower = PREFIX_PLANT /\ value # <<>> /\ Lower(value) # <<"unknown">>
            THEN value
        ELSE IF line_lower = PREFIX_DISEASE /\ value # <<>>
                /\ Lower(value) \notin {<<"n/a">>, <<"none">>, <<"unknown">>, <<>>}
            THEN value
        ELSE IF line_lower = PREFIX_INSECT /\ value # <<>> /\ Lower(value) # <<"unknown">>
            THEN value
        ELSE NoMatch

\* a variant without the sentinel after the loop
RECURSIVE primary_id_scan_no_sentinel(_)
primary_id_scan_no_sentinel(lines) ==
    IF lines = <<>> THEN NoMatch
    ELSE IF primary_id_line(Head(lines)) # NoMatch THEN primary_id_line(Head(lines))
    ELSE primary_id_scan_no_sentinel(Tail(lines))

RECURSIVE primary_id_scan(_)
primary_id_scan(lines) ==
    IF lines = <<>> THEN Unidentified
    ELSE IF primary_id_line(Head(lines)) # NoMatch THEN primary_id_line(Head(lines))
    ELSE primary_id_scan(Tail(lines))

extract_primary_id(text) ==
    IF text = <<>> \/ StartsWithErrorOrAPI(text) THEN ErrorId
    ELSE primary_id_scan(text)

(* plant_pest_detector2.py: PlantPestDetector.extract_primary_id            *)

primary_id2_line(line) ==
    LET value == Strip(RemoveStars(Strip(line.val)))
        colon == TRUE                               \* every head ends with a colon
    IN  IF ContainsPhrase(line, "insect species") /\ colon /\ value # <<>>
           /\ Lower(value) \notin {<<"unknown">>, <<"n/a">>, <<>>}
            THEN value
        ELSE IF ContainsPhrase(line, "disease name") /\ colon /\ value # <<>>
                /\ Lower(value) \notin {<<"n/a">>, <<"none">>, <<"unknown">>, <<>>}
            THEN value
        ELSE IF ContainsPhrase(line, "plant species") /\ colon /\ value # <<>>
                /\ Lower(value) \notin {<<"unknown">>, <<"n/a">>, <<>>}
            THEN value
        ELSE NoMatch

RECURSIVE primary_id2_scan(_)
primary_id2_scan(lines) ==
    IF lines = <<>> THEN Unidentified
    ELSE IF primary_id2_line(Head(lines)) # NoMatch THEN primary_id2_line(Head(lines))
    ELSE primary_id2_scan(Tail(lines))

extract_primary_id2(text) ==
    IF text = <<>> \/ StartsWithErrorOrAPI(text) THEN ErrorId
    ELSE primary_id2_scan(text)

(* celebrity_detector/app/plant_detector.py: extract_primary_id             *)
\* a species or insect line returns at once, whatever its value; the result
\* is wrapped so that an empty returned value differs from "scan on"

primary_id_cd_line(line) ==
    LET line_lower == LowerTok(line.head)
        value      == Strip(line.val)
    IN  IF line_lower = PREFIX_PLANT THEN <<value>>
        ELSE IF line_lower = PREFIX_DISEASE /\ value # <<>> /\ value # <<"N/A">>
            THEN <<value>>
        ELSE IF line_lower = PREFIX_INSECT THEN <<value>>
        ELSE NoMatch

RECURSIVE extract_primary_id_cd(_)
extract_primary_id_cd(lines) ==
    IF lines = <<>> THEN Unidentified
    ELSE IF primary_id_cd_line(Head(lines)) # NoMatch
         THEN primary_id_cd_line(Head(lines))[1]
    ELSE extract_primary_id_cd(Tail(lines))

\* ---- the extraction steps: one detector applies its extractor to the text

Pending == [fn |-> "none", value |-> <<>>]

InitExtract == content \in Texts /\ extracted = Pending

ExtractPrimaryId ==
    /\ extracted' = [fn |-> "extract_primary_id", value |-> extract_primary_id(content)]
    /\ UNCHANGED content

ExtractPrimaryId2 ==
    /\ extracted' = [fn |-> "extract_primary_id2", value |-> extract_primary_id2(content)]
    /\ UNCHANGED content

ExtractPrimaryIdCd ==
    /\ extracted' = [fn |-> "extract_primary_id_cd", value |-> extract_primary_id_cd(content)]
    /\ UNCHANGED content

-----------------------------------------------------------------------------
(* The world outside the process, as one handler invocation meets it:       *)
(*   failing  - the external sub-calls that fail during the invocation      *)
(*   toolUse  - whether the hosted model runs the tools a prompt names      *)
(*              (automatic function calling, create_agentic_session)        *)

Envs(calls) == [failing : SUBSET calls, toolUse : BOOLEAN]
\* the environments the web app's runs are explored with: at most one failing
\* sub-call in a run, and a hosted model that runs no tool
AppEnvs(calls) == {e \in Envs(calls) : Cardinality(e.failing) <= 1 /\ ~e.toolUse}

\* events of one invocation, in the order they happen
FetchEv(what)       == [ev |-> "fetch", what |-> what, chan |-> 0, prompt |-> <<>>]
ToolEv(what)        == [ev |-> "tool",  what |-> what, chan |-> 0, prompt |-> <<>>]
SendEv(kind, ch, p) == [ev |-> "send",  what |-> kind, chan |-> ch, prompt |-> p]

\* outcome of a call: it raised, or it returned value; events happened meanwhile
Returned(v, evs) == [raised |-> FALSE, value |-> v,    events |-> evs]
Raised(evs)      == [raised |-> TRUE,  value |-> <<>>, events |-> evs]

\* the text the hosted model answers to a request: it depends on the request
Reply(kind, prompt) == IF kind = "question" THEN <<"REPLY", prompt[1]>>
                       ELSE <<"REPLY", kind>>

\* tools the hosted model runs while answering: the ones the prompt names
\* (qa_engine_agentic.py:195 and :209), when it follows the instruction
ToolCalls(kind, env) ==
    IF ~env.toolUse THEN <<>>
    ELSE CASE kind = "treatment_prompt" -> <<ToolEv("get_weather"), ToolEv("get_soil_type")>>
           [] kind = "product_prompt"   -> <<ToolEv("search_amazon_products")>>
           [] OTHER                     -> <<>>

-----------------------------------------------------------------------------
(* qa_engine_agentic.py *)

\* chat = context['chat']
channel_of_fresh(ctx) == ctx.chat + 1
channel_of(ctx) == ctx.chat

\* chat.send_message(prompt).text : raises when the request fails
send_message(ctx, kind, prompt, env) ==
    IF kind \in env.failing
    THEN Raised(<<SendEv(kind, channel_of(ctx), prompt)>>)
    ELSE Returned(Reply(kind, prompt),
                  <<SendEv(kind, channel_of(ctx), prompt)>> \o ToolCalls(kind, env))

\* LocationService.get_weather_data / get_soil_data as the dispatcher sees them:
\* a content record, or an error record; they never raise
WeatherRecord(zipcode) ==
    [zipcode |-> zipcode,
     location |-> [city |-> "Fontana", state |-> "CA"],
     current |-> [temperature |-> "72", temperature_unit |-> "F",
                  wind_speed |-> "5 mph", wind_direction |-> "W",
                  short_forecast |-> "Sunny"],
     forecast_3day |-> <<[name |-> "Today", temperature |-> "72",
                          short_forecast |-> "Sunny"],
                         [name |-> "Tonight", temperature |-> "55",
                          short_forecast |-> "Clear"]>>]

\* the record get_soil_data builds (location_service.py:205-226) from the row
\* [Hanford, HcC, Hanford, Entisols, Typic Xerorthents, Well drained, 68.0]
\* with silt, clay, pH and organic matter absent: _determine_texture gives
\* "Unknown" when a percentage is absent
SoilRecord(zipcode) ==
    [zipcode |-> zipcode,
     location |-> [latitude |-> "34.1", longitude |-> "-117.4"],
     soil_properties |-> [soil_name |-> "Hanford", soil_symbol |-> "HcC",
                          component_name |-> "Hanford", soil_order |-> "Entisols",
                          soil_subgroup |-> "Typic Xerorthents",
                          drainage_class |-> "Well drained",
                          sand_percent |-> "68.0",
                          silt_percent |-> "Not available",
                          clay_percent |-> "Not available",
                          soil_texture |-> "Unknown",
                          ph |-> "Not available",
                          organic_matter_percent |-> "Not available"],
     data_source |-> "USDA SSURGO via Soil Data Access"]

ErrorRecord(zipcode, what) == [zipcode |-> zipcode, error |-> what]

get_weather_data(ctx, env) ==
    IF "weather_fetch" \in env.failing
    THEN Returned(ErrorRecord(ctx.zipcode, "weather"), <<FetchEv("weather")>>)
    ELSE Returned(WeatherRecord(ctx.zipcode), <<FetchEv("weather")>>)

\* a variant that keeps the soil record the previous invocation fetched
get_soil_data_cached(ctx, env) ==
    LET again == \E i \in DOMAIN lastCall.events : lastCall.events[i] = FetchEv("soil")
        rec   == IF "soil_fetch" \in env.failing
                 THEN ErrorRecord(ctx.zipcode, "soil") ELSE SoilRecord(ctx.zipcode)
    IN  Returned(rec, IF again THEN <<>> ELSE <<FetchEv("soil")>>)

get_soil_data(ctx, env) ==
    IF "soil_fetch" \in env.failing
    THEN Returned(ErrorRecord(ctx.zipcode, "soil"), <<FetchEv("soil")>>)
    ELSE Returned(SoilRecord(ctx.zipcode), <<FetchEv("soil")>>)

\* dict.get(key, default)
Get(rec, key, default) == IF key \in DOMAIN rec THEN rec[key] ELSE default

\* a variant with a wider window
FORECAST_WINDOW_wide == 6 + 2

FORECAST_WINDOW == 6

format_weather_display(weather_data) ==
    IF "error" \in DOMAIN weather_data THEN <<"Weather data unavailable">>
    ELSE LET location == Get(weather_data, "location", <<>>)
             current  == Get(weather_data, "current", <<>>)
             forecast == Get(weather_data, "forecast_3day", <<>>)
             shown    == SubSeq(forecast, 1,
                                IF Len(forecast) < FORECAST_WINDOW THEN Len(forecast)
                                ELSE FORECAST_WINDOW)
         IN  <<"**Current Weather:**",
               "Location:", Get(location, "city", "Unknown"), Get(location, "state", "Unknown"),
               "Temperature:", Get(current, "temperature", "N/A"),
                               Get(current, "temperature_unit", "F"),
               "Conditions:", Get(current, "short_forecast", "N/A"),
               "Wind:", Get(current, "wind_speed", "N/A"), Get(current, "wind_direction", "N/A"),
               "**3-Day Forecast:**">>
             \o Flatten([i \in 1..Len(shown) |->
                            <<Get(shown[i], "name", "N/A"),
                              Get(shown[i], "temperature", "N/A"),
                              Get(shown[i], "short_forecast", "N/A")>>])

SoilLine(soil_props, key, label) ==
    IF Get(soil_props, key, "Not available") # "Not available"
    THEN <<label, soil_props[key]>> ELSE <<>>

format_soil_display(soil_data) ==
    IF "error" \in DOMAIN soil_data THEN <<"Soil data unavailable">>
    ELSE LET soil_props == Get(soil_data, "soil_properties", <<>>)
         IN  <<"**Your Soil Type:**",
               "Name:", Get(soil_props, "soil_name", "Unknown"),
               "Texture:", Get(soil_props, "soil_texture", "Unknown"),
               "Drainage:", Get(soil_props, "drainage_class", "Unknown")>>
             \o SoilLine(soil_props, "sand_percent", "Sand:")
             \o SoilLine(soil_props, "clay_percent", "Clay:")
             \o SoilLine(soil_props, "silt_percent", "Silt:")
             \o SoilLine(soil_props, "ph", "pH:")
             \o SoilLine(soil_props, "organic_matter_percent", "Organic Matter:")

\* ---- the prompts: the template's name and the context fields it embeds

treatment_prompt(ctx) == <<"treatment_prompt", ctx.pest_or_disease, ctx.plant_type,
                           ctx.infestation_level, ctx.zipcode>>
product_prompt(ctx)   == <<"product_prompt", ctx.pest_or_disease, ctx.plant_type>>
soil_prompt(ctx)      == <<"soil_prompt", ctx.plant_type, ctx.pest_or_disease>>
weather_prompt(ctx)   == <<"weather_prompt", ctx.pest_or_disease>>
monitoring_prompt(ctx) == <<"monitoring_prompt", ctx.pest_or_disease, ctx.plant_type>>
\* the Detailed Report's own prompts (qa_engine_agentic.py:301 and :304)
report_soil_prompt(ctx)    == <<"report_soil_prompt", ctx.pest_or_disease, ctx.plant_type>>
report_weather_prompt(ctx) == <<"report_weather_prompt">>

\* ---- the fixed lines of the composed texts
TREATMENT_TITLE   == "**Treatment Recommendations:**"
RULE_LIGHT        == "----------------------------------------------------------------------"
RULE_HEAVY        == "======================================================================"
REPORT_TITLE      == "COMPREHENSIVE TREATMENT REPORT"
HEADER_TREATMENT  == "## 1 TREATMENT RECOMMENDATIONS"
HEADER_SOIL       == "## 2 SOIL IMPACT ANALYSIS"
HEADER_WEATHER    == "## 3 WEATHER-BASED TIMING"
HEADER_MONITORING == "## 4 MONITORING & PREVENTION"
INVALID_OPTION    == <<"Invalid option">>

\* a variant that asks for the products before the advice
generate_treatment_recommendations_swapped(ctx, env) ==
    LET products == send_message(ctx, "product_prompt", product_prompt(ctx), env)
        advice   == send_message(ctx, "treatment_prompt", treatment_prompt(ctx), env)
    IN  IF products.raised THEN Raised(products.events)
        ELSE IF advice.raised THEN Raised(products.events \o advice.events)
        ELSE Returned(<<TREATMENT_TITLE>> \o advice.value \o <<RULE_LIGHT>> \o products.value,
                      products.events \o advice.events)

generate_treatment_recommendations(ctx, env) ==
    LET advice   == send_message(ctx, "treatment_prompt", treatment_prompt(ctx), env)
        products == send_message(ctx, "product_prompt", product_prompt(ctx), env)
    IN  IF advice.raised THEN Raised(advice.events)
        ELSE IF products.raised THEN Raised(advice.events \o products.events)
        ELSE Returned(<<TREATMENT_TITLE>> \o advice.value \o <<RULE_LIGHT>> \o products.value,
                      advice.events \o products.events)

\* option == 2 : Soil Impact
soil_impact(ctx, env) ==
    LET soil_data    == get_soil_data(ctx, env)
        soil_display == format_soil_display(soil_data.value)
        response     == send_message(ctx, "soil_prompt", soil_prompt(ctx), env)
    IN  IF response.raised THEN Raised(soil_data.events \o response.events)
        ELSE Returned(soil_display \o response.value, soil_data.events \o response.events)

\* option == 3 : Weather Timing
weather_timing(ctx, env) ==
    LET weather_data    == get_weather_data(ctx, env)
        weather_display == format_weather_display(weather_data.value)
        response        == send_message(ctx, "weather_prompt", weather_prompt(ctx), env)
    IN  IF response.raised THEN Raised(weather_data.events \o response.events)
        ELSE Returned(weather_display \o response.value,
                      weather_data.events \o response.events)

\* option == 4 : Monitoring
monitoring_advice(ctx, env) ==
    send_message(ctx, "monitoring_prompt", monitoring_prompt(ctx), env)

\* the soil analysis request of the Detailed Report (qa_engine_agentic.py:301-302)
report_soil_analysis_by_selector(ctx, env) ==
    send_message(ctx, "soil_prompt", soil_prompt(ctx), env)
report_soil_analysis(ctx, env) ==
    send_message(ctx, "report_soil_prompt", report_soil_prompt(ctx), env)

\* the weather analysis request of the Detailed Report (qa_engine_agentic.py:304-305)
report_weather_analysis(ctx, env) ==
    send_message(ctx, "report_weather_prompt", report_weather_prompt(ctx), env)

\* the report template (qa_engine_agentic.py:310-342)
report_template(trt, soil_display, soil_analysis, weather_display, weather_analysis, mon) ==
    <<RULE_HEAVY, REPORT_TITLE, RULE_HEAVY, HEADER_TREATMENT>> \o trt
    \o <<RULE_LIGHT, HEADER_SOIL>> \o soil_display \o soil_analysis
    \o <<RULE_LIGHT, HEADER_WEATHER>> \o weather_display \o weather_analysis
    \o <<RULE_LIGHT, HEADER_MONITORING>> \o mon
    \o <<RULE_HEAVY>>

\* option == 5 : Detailed Report
detailed_report(ctx, env) ==
    LET weather_data     == get_weather_data(ctx, env)
        soil_data        == get_soil_data(ctx, env)
        weather_display  == format_weather_display(weather_data.value)
        soil_display     == format_soil_display(soil_data.value)
        e0               == weather_data.events \o soil_data.events
        treatment_rec    == generate_treatment_recommendations(ctx, env)
        e1               == e0 \o treatment_rec.events
        soil_analysis    == report_soil_analysis(ctx, env)
        e2               == e1 \o soil_analysis.events
        weather_analysis == report_weather_analysis(ctx, env)
        e3               == e2 \o weather_analysis.events
        monitoring       == monitoring_advice(ctx, env)     \* answer_menu_option(context, 4)
        e4               == e3 \o monitoring.events
    IN  IF treatment_rec.raised THEN Raised(e1)
        ELSE IF soil_analysis.raised THEN Raised(e2)
        ELSE IF weather_analysis.raised THEN Raised(e3)
        ELSE IF monitoring.raised THEN Raised(e4)
        ELSE Returned(report_template(treatment_rec.value, soil_display, soil_analysis.value,
                                      weather_display, weather_analysis.value,
                                      monitoring.value), e4)

\* a variant that takes the number of the menu label for the selector
answer_menu_option_by_label(ctx, option, env) ==
    CASE option = 1 -> soil_impact(ctx, env)
      [] option = 2 -> weather_timing(ctx, env)
      [] option = 3 -> monitoring_advice(ctx, env)
      [] option = 4 -> detailed_report(ctx, env)
      [] OTHER      -> Returned(INVALID_OPTION, <<>>)

answer_menu_option(ctx, option, env) ==
    CASE option = 2 -> soil_impact(ctx, env)
      [] option = 3 -> weather_timing(ctx, env)
      [] option = 4 -> monitoring_advice(ctx, env)
      [] option = 5 -> detailed_report(ctx, env)
      [] OTHER      -> Returned(INVALID_OPTION, <<>>)

ask_custom_question(ctx, question, env) ==
    send_message(ctx, "question", <<question>>, env)

\* the sub-calls one invocation can meet
CallsOf(option) ==
    CASE option = 2 -> {"soil_fetch", "soil_prompt"}
      [] option = 3 -> {"weather_fetch", "weather_prompt"}
      [] option = 4 -> {"monitoring_prompt"}
      [] option = 5 -> {"weather_fetch", "soil_fetch", "treatment_prompt", "product_prompt",
                        "report_soil_prompt", "report_weather_prompt", "monitoring_prompt"}
      [] OTHER      -> {}

-----------------------------------------------------------------------------
(* app.py : the web app.  One action per user action; an exception inside a *)
(* handler ends the script run, and the session state keeps what had been   *)
(* stored before it.                                                        *)

\* what detector.identify hands to `pest, severity, plant, confidence,
\* subject_type = ...` (app.py:165): the five-field Detection Result the app is
\* written against, or the triple of src/plant_pest_detector.py
identify_five_fields == {<<"Aphids", "Moderate", "Tomato", "High", "pest">>}
\* PlantPestDetector.identify of src/plant_pest_detector.py: (content,
\* subject_type, primary_id); extract_subject_type finds none of its phrases
\* in a bold bullet and returns "unknown"
identify_triple == {<<"- **Insect Species**: Aphids", "unknown", "Aphids">>}
identify_results == identify_five_fields \cup identify_triple

PlantInputs  == {"", "Tomato"}
Zipcodes     == {"", "9233", "92336", "abcde"}
Infestations == {"medium", "high"}     \* two of the select box's three options
Questions    == {"", "Is neem oil safe?", "When to spray?"}

NoEnv == [failing |-> {}, toolUse |-> FALSE]

\* the record kept of the last handler run
Call(op, sid, run, env) ==
    [op |-> op, sid |-> sid, raised |-> run.raised, result |-> run.value,
     events |-> run.events, env |-> env, logLen |-> Len(conversation_history)]

NoCall == [op |-> "none", sid |-> 0, raised |-> FALSE, result |-> <<>>,
           events |-> <<>>, env |-> NoEnv, logLen |-> 0]

SendsOf(sid, events) ==
    {[sid |-> sid, chan |-> events[i].chan] : i \in {j \in DOMAIN events : events[j].ev = "send"}}

\* create_agentic_session: a new chat channel, stored in the new context
create_agentic_session(pest_or_disease, severity, plant_type, infestation_level, zipcode) ==
    [pest_or_disease |-> pest_or_disease, severity |-> severity,
     plant_type |-> plant_type, infestation_level |-> infestation_level,
     zipcode |-> zipcode, chat |-> chats + 1, sid |-> Len(sessions) + 1]

\* st.session_state.conversation_history.append((label, answer))
log_prepend(log, label, answer) == <<(<<label, answer>>)>> \o log
log_append(log, label, answer) == Append(log, <<label, answer>>)

InitApp ==
    /\ stage = "upload"
    /\ detection_results = None
    /\ context = None
    /\ treatment = NoText
    /\ conversation_history = <<>>
    /\ chats = 0
    /\ sessions = <<>>
    /\ sent = {}
    /\ lastCall = NoCall

\* "Analyze Image" (app.py:156-183)
Analyze ==
    /\ stage = "upload"
    /\ \E ret \in identify_results, briefFails \in BOOLEAN :
          IF Len(ret) # 5 \/ briefFails
          THEN /\ lastCall' = Call("analyze", 0, Raised(<<>>), NoEnv)
               /\ UNCHANGED <<stage, detection_results>>
          ELSE /\ detection_results' = [pest |-> ret[1], severity |-> ret[2],
                                        plant |-> ret[3], confidence |-> ret[4],
                                        subject_type |-> ret[5]]
               /\ stage' = "details"
               /\ lastCall' = Call("analyze", 0, Returned(<<>>, <<>>), NoEnv)
    /\ UNCHANGED <<context, treatment, conversation_history, chats, sessions, sent>>

\* "Generate Treatment Plan" (app.py:238-261)
DetailsSubmit ==
    /\ stage = "details"
    /\ \E plant_input \in PlantInputs, zipcode \in Zipcodes, infestation \in Infestations,
          env \in AppEnvs({"treatment_prompt", "product_prompt"}) :
          IF zipcode = "" \/ Len(zipcode) # 5
          THEN /\ lastCall' = Call("details", 0,
                                   Returned(<<"Please enter a valid 5-digit zip code">>, <<>>),
                                   NoEnv)
               /\ UNCHANGED <<stage, context, treatment, chats, sessions, sent>>
          ELSE IF plant_input = ""
          THEN /\ lastCall' = Call("details", 0,
                                   Returned(<<"Please enter the plant type">>, <<>>), NoEnv)
               /\ UNCHANGED <<stage, context, treatment, chats, sessions, sent>>
          ELSE /\ chats < MaxSessions
               /\ LET ctx == create_agentic_session(detection_results.pest,
                                                    detection_results.severity,
                                                    plant_input, infestation, zipcode)
                      run == generate_treatment_recommendations(ctx, env)
                  IN  /\ chats' = chats + 1
                      /\ sessions' = Append(sessions, ctx.chat)
                      /\ sent' = sent \cup SendsOf(ctx.sid, run.events)
                      /\ lastCall' = Call("generate", ctx.sid, run, env)
                      /\ IF run.raised
                         THEN UNCHANGED <<stage, context, treatment>>
                         ELSE /\ context' = ctx
                              /\ treatment' = run.value
                              /\ stage' = "recommendations"
    /\ UNCHANGED <<detection_results, conversation_history>>

\* a tab's button: the dispatcher is called, its answer appended and shown
MenuTab(op, label, option) ==
    /\ stage = "recommendations"
    /\ Len(conversation_history) < MaxLog
    /\ \E env \in AppEnvs(CallsOf(option)) :
          LET run == answer_menu_option(context, option, env)
          IN  /\ lastCall' = Call(op, context.sid, run, env)
              /\ sent' = sent \cup SendsOf(context.sid, run.events)
              /\ conversation_history' =
                     IF run.raised THEN conversation_history
                     ELSE log_append(conversation_history, label, run.value)
    /\ UNCHANGED <<stage, detection_results, context, treatment, chats, sessions>>

\* the selector each of the first four tabs passes to answer_menu_option
tab_selectors == <<2, 3, 4, 5>>

SoilTab       == MenuTab("soil", "Soil Impact", tab_selectors[1])        \* app.py:313-318
WeatherTab    == MenuTab("weather", "Weather Timing", tab_selectors[2])  \* app.py:321-326
MonitoringTab == MenuTab("monitoring", "Monitoring", tab_selectors[3])   \* app.py:329-334
ReportTab     == MenuTab("report", "Full Report", tab_selectors[4])      \* app.py:337-342

\* the "Ask" button (app.py:345-351)
AskTab ==
    /\ stage = "recommendations"
    /\ Len(conversation_history) < MaxLog
    /\ \E question \in Questions, env \in AppEnvs({"question"}) :
          IF question = ""
          THEN /\ lastCall' = Call("ask_empty", context.sid, Returned(<<>>, <<>>), NoEnv)
               /\ UNCHANGED <<sent, conversation_history>>
          ELSE LET run == ask_custom_question(context, question, env)
               IN  /\ lastCall' = Call("ask", context.sid, run, env)
                   /\ sent' = sent \cup SendsOf(context.sid, run.events)
                   /\ conversation_history' =
                          IF run.raised THEN conversation_history
                          ELSE log_append(conversation_history, question, run.value)
    /\ UNCHANGED <<stage, detection_results, context, treatment, chats, sessions>>

\* "New Analysis": reset_session deletes every key, the rerun initialises them
\* a variant that keeps the conversation log
reset_session_keeping_log ==
    /\ stage = "recommendations"
    /\ stage' = "upload"
    /\ detection_results' = None
    /\ context' = None
    /\ treatment' = NoText
    /\ lastCall' = Call("reset", context.sid, Returned(<<>>, <<>>), NoEnv)
    /\ UNCHANGED <<conversation_history, chats, sessions, sent>>

reset_session ==
    /\ stage = "recommendations"
    /\ stage' = "upload"
    /\ detection_results' = None
    /\ context' = None
    /\ treatment' = NoText
    /\ conversation_history' = <<>>
    /\ lastCall' = Call("reset", context.sid, Returned(<<>>, <<>>), NoEnv)
    /\ UNCHANGED <<chats, sessions, sent>>

-----------------------------------------------------------------------------
(* test_agentic_flow.py : the command-line harness.  An exception that      *)
(* leaves a call ends the run, except a ValueError raised inside the menu   *)
(* loop's try block, which is none of the failures modelled here.           *)

\* the comma separated answer to "Enter details", split and stripped
UserInputs == {<<>>, <<"tomato", "92336", "LOW">>, <<"", "92336">>}
Choices    == {"quit", "1", "2", "3", "4", "5", "6", "abc"}

\* int(choice): 0 stands for the ValueError of a non-number
IntOf(choice) ==
    CASE choice = "1" -> 1 [] choice = "2" -> 2 [] choice = "3" -> 3
      [] choice = "4" -> 4 [] choice = "5" -> 5 [] choice = "6" -> 6
      [] OTHER -> 0

OpOf(option) ==
    CASE option = 2 -> "soil" [] option = 3 -> "weather" [] option = 4 -> "monitoring"
      [] option = 5 -> "report" [] OTHER -> "invalid"

\* the record of a menu round: the call, the line typed and the selector passed
\* to answer_menu_option (0 when it was not called)
Chosen(call, choice, selector) == call @@ [choice |-> choice, selector |-> selector]

InitHarness == pc = "start" /\ ncalls = 0 /\ prevOp = "none"

\* test_agentic_flow.py:30-91
HarnessStart ==
    /\ pc = "start"
    /\ \E ret \in identify_results, briefFails \in BOOLEAN, parts \in UserInputs,
          env \in Envs({"treatment_prompt", "product_prompt"}) :
          IF Len(ret) # 5 \/ briefFails
          THEN /\ pc' = "crashed"
               /\ lastCall' = Call("analyze", 0, Raised(<<>>), NoEnv)
               /\ UNCHANGED <<context, treatment, chats, sessions, sent>>
          ELSE LET plant       == ret[3]
                   plant_final == IF Len(parts) > 0 /\ parts[1] # "" THEN parts[1]
                                  ELSE IF plant # "Unknown" THEN plant
                                  ELSE "vegetable garden"
                   zipcode     == IF Len(parts) > 1 THEN parts[2] ELSE "92336"
                   infestation == IF Len(parts) > 2 THEN LowerTok(parts[3]) ELSE "medium"
                   ctx == create_agentic_session(ret[1], ret[2], plant_final,
                                                 infestation, zipcode)
                   run == generate_treatment_recommendations(ctx, env)
               IN  /\ chats' = chats + 1
                   /\ sessions' = Append(sessions, ctx.chat)
                   /\ sent' = sent \cup SendsOf(ctx.sid, run.events)
                   /\ lastCall' = Call("generate", ctx.sid, run, env)
                   /\ context' = ctx
                   /\ treatment' = run.value
                   /\ pc' = IF run.raised THEN "crashed" ELSE "menu"
    /\ UNCHANGED <<stage, detection_results, conversation_history, ncalls, prevOp>>

\* one round of the menu loop (test_agentic_flow.py:96-129)
HarnessMenu ==
    /\ pc = "menu"
    /\ \E choice \in Choices :
          IF choice = "quit"
          THEN /\ pc' = "done"
               /\ lastCall' = Chosen(Call("quit", context.sid, Returned(<<>>, <<>>), NoEnv),
                                     choice, 0)
               /\ UNCHANGED <<sent, ncalls, prevOp>>
          ELSE IF IntOf(choice) = 5
          THEN /\ ncalls < MaxCalls
               /\ \E question \in Questions, env \in Envs({"question"}) :
                     LET run == ask_custom_question(context, question, env)
                     IN  /\ lastCall' = Chosen(Call("ask", context.sid, run, env), choice, 0)
                         /\ sent' = sent \cup SendsOf(context.sid, run.events)
                         /\ pc' = IF run.raised THEN "crashed" ELSE "menu"
                         /\ ncalls' = ncalls + 1
                         /\ prevOp' = lastCall.op
          ELSE IF IntOf(choice) \in 1..4
          THEN /\ ncalls < MaxCalls
               /\ LET function_option == IntOf(choice) + 1
                  IN  \E env \in Envs(CallsOf(function_option)) :
                         LET run == answer_menu_option(context, function_option, env)
                         IN  /\ lastCall' = Chosen(Call(OpOf(function_option), context.sid,
                                                         run, env), choice, function_option)
                             /\ sent' = sent \cup SendsOf(context.sid, run.events)
                             /\ pc' = IF run.raised THEN "crashed" ELSE "menu"
                             /\ ncalls' = ncalls + 1
                             /\ prevOp' = lastCall.op
          ELSE /\ lastCall' = Chosen(Call("rejected", context.sid, Returned(<<>>, <<>>),
                                          NoEnv), choice, 0)
               /\ UNCHANGED <<pc, sent, ncalls, prevOp>>
    /\ UNCHANGED <<stage, detection_results, context, treatment, conversation_history,
                   chats, sessions>>

-----------------------------------------------------------------------------
(* qa_engine.py : AgriQAEngine *)

\* a field that holds Python's None
NoneStr == "<None>"

\* AgriQAEngine.__init__ : the context storage
EngineInit == [pest_or_disease |-> NoneStr, severity |-> NoneStr, subject_type |-> NoneStr,
               plant_type |-> NoneStr, infestation_level |-> NoneStr,
               location_context |-> None, conversation_history |-> <<>>]

\* `not x` for a field that holds None or a string
Falsy(x) == x = NoneStr \/ x = ""

\* dict.get(key) : None when the key is absent, shown as "None" in an f-string
GetNone(rec, key) == Get(rec, key, "None")

\* environment of one engine call:
\*   failing     - the options whose generate_content call raises (0: the
\*                 custom question's)
\*   mentions    - the product keywords the treatment text mentions
\*   searchFails - the product searches (by position) that find nothing
\*   padded      - whether the model's text ends with white space
TreatmentMentions == {<<>>, <<"Neem oil", "Bt">>}
MAX_SEARCHES == 2
EngineEnvsAll == [failing : SUBSET (0..4), mentions : TreatmentMentions,
                  searchFails : SUBSET (1..MAX_SEARCHES), padded : BOOLEAN]
\* the environments explored for a call of `option`: the model calls the option
\* makes may fail, at most one of them in one call
EngineEnvs(option) ==
    LET made == CASE option \in 1..4 -> {option}
                  [] option = 5      -> 1..4
                  [] option = 0      -> {0}
                  [] OTHER           -> {}
        searches == IF option \in {1, 5} THEN 1..MAX_SEARCHES ELSE {}
    IN  {e \in EngineEnvsAll : /\ e.failing \subseteq made
                               /\ Cardinality(e.failing) <= 1
                               /\ e.searchFails \subseteq searches
                               /\ (option \notin {1, 5} => e.mentions = <<>>)
                               /\ (e.padded => option = 0 /\ e.failing = {})}

GenerateEv(kind, prompt) == [ev |-> "generate_content", what |-> kind, chan |-> 0,
                             prompt |-> prompt]
SearchEv(query)          == [ev |-> "search", what |-> "amazon", chan |-> 0,
                             prompt |-> query]

\* model.generate_content(prompt).text
generate_content(option, kind, prompt, env) ==
    IF option \in env.failing
    THEN Raised(<<GenerateEv(kind, prompt)>>)
    ELSE Returned(<<"REPLY", kind>> \o (IF option = 1 THEN env.mentions ELSE <<>>)
                  \o (IF option = 0 THEN prompt ELSE <<>>)
                  \o (IF env.padded THEN <<" ">> ELSE <<>>),
                  <<GenerateEv(kind, prompt)>>)

\* amazon_tools.search_amazon_products(query, max_results=2)
MAX_RESULTS == 2
search_amazon_products(query, nth, env) ==
    IF nth \in env.searchFails
    THEN <<[error |-> "No products found", query |-> query]>>
    ELSE [i \in 1..MAX_RESULTS |->
            [name |-> query, price |-> "$9.99", rating |-> "4.5 out of 5 stars",
             url |-> IF i = 1 THEN "https://www.amazon.com/dp/1"
                     ELSE "https://www.amazon.com/dp/2"]]

\* keywords_to_search (qa_engine.py:249-253)
KEYWORDS_TO_SEARCH == <<"Bt", "spinosad", "neem oil", "pyrethrin", "insecticidal soap",
                        "copper fungicide", "sulfur spray", "diatomaceous earth",
                        "horticultural oil", "bacillus thuringiensis">>

\* str.lower() of the tokens of an engine text
EngineLowerTok(t) == CASE t = "Bt" -> "bt" [] t = "Neem oil" -> "neem oil" [] OTHER -> t

\* str.upper() of an infestation level
UpperTok(t) == CASE t = "low" -> "LOW" [] t = "medium" -> "MEDIUM" [] t = "high" -> "HIGH"
                 [] OTHER -> t

\* the context block of a menu prompt (qa_engine.py:195-208)
engine_context(self) ==
    LET weather == Get(self.location_context, "weather", <<>>)
        soil    == Get(self.location_context, "soil", <<>>)
    IN  <<self.pest_or_disease, self.severity, self.plant_type, self.infestation_level,
          GetNone(Get(weather, "current", <<>>), "temperature"),
          GetNone(Get(soil, "soil_properties", <<>>), "soil_texture"),
          GetNone(Get(soil, "soil_properties", <<>>), "drainage_class")>>

\* outcome of an engine method: the object afterwards, the returned text and
\* the external calls made
EngineOut(self, v, evs) == [self |-> self, value |-> v, events |-> evs]

\* self.conversation_history.append(entry)
history_append(self, entry) ==
    [self EXCEPT !.conversation_history = Append(@, entry)]

MenuEntry(option, answer) == [type |-> "menu_selection", option |-> option,
                              answer |-> answer]

MISSING_CONTEXT   == <<"Missing context. Please start over.">>
ENGINE_INVALID    == <<"Invalid option. Please select 1-6.">>
START_WITH_IMAGE  == <<"Please start with image detection first.">>
PRODUCTS_TITLE    == "**Recommended Products on Amazon:**"
LINKS_UNAVAILABLE == "*(Product links temporarily unavailable)*"

\* product_keywords (qa_engine.py:255-262)
product_keywords(self, treatment_text) ==
    LET treatment_lower == {EngineLowerTok(treatment_text[i]) : i \in DOMAIN treatment_text}
        IsMentioned(k)  == EngineLowerTok(k) \in treatment_lower
        found           == SelectSeq(KEYWORDS_TO_SEARCH, IsMentioned)
    IN  IF found = <<>>
        THEN <<<<self.pest_or_disease, "treatment", self.plant_type>>>>
        ELSE [i \in 1..Len(found) |-> <<found[i]>>]

IndexLabel(i) == CASE i = 1 -> "1." [] i = 2 -> "2." [] i = 3 -> "3." [] OTHER -> "4."
MAX_LINKS == 4

\* product_links (qa_engine.py:271-281)
product_links(amazon_products) ==
    IF amazon_products # <<>> /\ "error" \notin DOMAIN amazon_products[1]
    THEN LET shown == SubSeq(amazon_products, 1,
                             IF Len(amazon_products) < MAX_LINKS THEN Len(amazon_products)
                             ELSE MAX_LINKS)
         IN  <<PRODUCTS_TITLE>>
             \o Flatten([i \in 1..Len(shown) |->
                           IF "error" \notin DOMAIN shown[i]
                           THEN <<IndexLabel(i)>> \o shown[i].name
                                \o <<shown[i].price, shown[i].rating, shown[i].url>>
                           ELSE <<>>])
    ELSE <<PRODUCTS_TITLE, LINKS_UNAVAILABLE>>

\* option == 1 : Treatment Recommendations (qa_engine.py:211-295)
engine_treatment(self, env) ==
    LET kind     == IF self.infestation_level = "Unknown" THEN "treatment_all_levels"
                    ELSE "treatment_for_level"
        \* the fields the template embeds (qa_engine.py:212-240); the sentence
        \* added for the level "low" is text of the template
        prompt   == IF self.infestation_level = "Unknown" THEN engine_context(self)
                    ELSE engine_context(self)
                         \o <<UpperTok(self.infestation_level), self.plant_type>>
        response == generate_content(1, kind, prompt, env)
        treatment_text == Strip(response.value)
        keywords == product_keywords(self, treatment_text)
        used     == SubSeq(keywords, 1, IF Len(keywords) < MAX_SEARCHES THEN Len(keywords)
                                        ELSE MAX_SEARCHES)
        queries  == [i \in 1..Len(used) |-> used[i] \o <<"organic pesticide">>]
        amazon_products == Flatten([i \in 1..Len(used) |->
                                       search_amazon_products(queries[i], i, env)])
        answer   == treatment_text \o product_links(amazon_products)
    IN  IF response.raised
        THEN EngineOut(self, <<"Error generating recommendations:">>, response.events)
        ELSE EngineOut(history_append(self, MenuEntry(1, answer)), answer,
                       response.events \o [i \in 1..Len(used) |-> SearchEv(queries[i])])

\* soil_info_display (qa_engine.py:301-310)
soil_info_display(soil_props) ==
    <<"**Your Soil Type:**",
      "Name:", GetNone(soil_props, "soil_name"),
      "Texture:", GetNone(soil_props, "soil_texture"),
      "Drainage:", GetNone(soil_props, "drainage_class"),
      "Sand:", GetNone(soil_props, "sand_percent"),
      "Clay:", GetNone(soil_props, "clay_percent"),
      "Silt:", GetNone(soil_props, "silt_percent"),
      "pH:", GetNone(soil_props, "ph"),
      "Organic Matter:", GetNone(soil_props, "organic_matter_percent")>>

\* option == 2 : Detailed Soil Impact (qa_engine.py:297-339)
engine_soil_impact(self, env) ==
    LET soil       == Get(self.location_context, "soil", <<>>)
        soil_props == Get(soil, "soil_properties", <<>>)
        prompt     == <<self.plant_type, self.pest_or_disease,
                        GetNone(soil_props, "soil_texture"),
                        GetNone(soil_props, "drainage_class")>> \o engine_context(self)
        response   == generate_content(2, "soil_analysis", prompt, env)
        answer     == IF response.raised
                      THEN soil_info_display(soil_props) \o <<"Error generating analysis:">>
                      ELSE soil_info_display(soil_props) \o Strip(response.value)
    IN  EngineOut(history_append(self, MenuEntry(2, answer)), answer, response.events)

\* weather_display (qa_engine.py:346-355)
engine_weather_display(weather) ==
    LET current  == Get(weather, "current", <<>>)
        forecast == Get(weather, "forecast_3day", <<>>)
        shown    == SubSeq(forecast, 1, IF Len(forecast) < FORECAST_WINDOW THEN Len(forecast)
                                        ELSE FORECAST_WINDOW)
    IN  <<"**Current Weather:**",
          "Temperature:", GetNone(current, "temperature"), GetNone(current, "temperature_unit"),
          "Conditions:", GetNone(current, "short_forecast"),
          "Wind:", GetNone(current, "wind_speed"), GetNone(current, "wind_direction"),
          "**3-Day Forecast:**">>
        \o Flatten([i \in 1..Len(shown) |->
                      <<GetNone(shown[i], "name"), GetNone(shown[i], "temperature"),
                        GetNone(shown[i], "short_forecast")>>])

\* option == 3 : Weather-Based Timing (qa_engine.py:341-379)
engine_weather_timing(self, env) ==
    LET weather  == Get(self.location_context, "weather", <<>>)
        prompt   == <<self.pest_or_disease>> \o engine_context(self)
        response == generate_content(3, "timing_guidance", prompt, env)
        answer   == IF response.raised
                    THEN engine_weather_display(weather) \o <<"Error:">>
                    ELSE engine_weather_display(weather) \o Strip(response.value)
    IN  EngineOut(history_append(self, MenuEntry(3, answer)), answer, response.events)

\* option == 4 : Monitoring & Prevention (qa_engine.py:381-389 and 436-449)
engine_monitoring(self, env) ==
    LET prompt   == engine_context(self) \o <<self.plant_type>>
        response == generate_content(4, "monitoring_advice", prompt, env)
        answer   == Strip(response.value)
    IN  IF response.raised THEN EngineOut(self, <<"Error:">>, response.events)
        ELSE EngineOut(history_append(self, MenuEntry(4, answer)), answer, response.events)

ENGINE_HEADER_TREATMENT  == "## 1. TREATMENT RECOMMENDATIONS"
ENGINE_HEADER_SOIL       == "## 2. SOIL IMPACT ANALYSIS"
ENGINE_HEADER_WEATHER    == "## 3. WEATHER-BASED TIMING"
ENGINE_HEADER_MONITORING == "## 4. MONITORING & PREVENTION"

\* has_context : the guard of answer_menu_selection (qa_engine.py:192)
\* a guard that only looks at the location context
has_context_location_only(self) == self.location_context # None

has_context(self) == ~Falsy(self.pest_or_disease) /\ self.location_context # None

\* option == 5 : Detailed Report (qa_engine.py:391-431); the four sections are
\* answer_menu_selection(1) .. answer_menu_selection(4) run on the same object
engine_detailed_report(self, env) ==
    LET sec1      == engine_treatment(self, env)
        sec2   == engine_soil_impact(sec1.self, env)
        sec3 == engine_weather_timing(sec2.self, env)
        sec4     == engine_monitoring(sec3.self, env)
        report == <<RULE_HEAVY, REPORT_TITLE, RULE_HEAVY, ENGINE_HEADER_TREATMENT>>
                  \o sec1.value
                  \o <<RULE_LIGHT, ENGINE_HEADER_SOIL>> \o sec2.value
                  \o <<RULE_LIGHT, ENGINE_HEADER_WEATHER>> \o sec3.value
                  \o <<RULE_LIGHT, ENGINE_HEADER_MONITORING>> \o sec4.value
                  \o <<RULE_HEAVY>>
    IN  EngineOut(history_append(sec4.self,
                                 [type |-> "detailed_report", content |-> report]),
                  report,
                  sec1.events \o sec2.events \o sec3.events
                  \o sec4.events)

\* AgriQAEngine.answer_menu_selection (qa_engine.py:187-449)
answer_menu_selection(self, option, env) ==
    IF ~has_context(self) THEN EngineOut(self, MISSING_CONTEXT, <<>>)
    ELSE CASE option = 1 -> engine_treatment(self, env)
           [] option = 2 -> engine_soil_impact(self, env)
           [] option = 3 -> engine_weather_timing(self, env)
           [] option = 4 -> engine_monitoring(self, env)
           [] option = 5 -> engine_detailed_report(self, env)
           [] OTHER      -> EngineOut(self, ENGINE_INVALID, <<>>)

\* AgriQAEngine.ask_custom_question (qa_engine.py:451-490)
engine_ask_custom_question(self, question, env) ==
    LET lc      == self.location_context
        weather == IF lc # None THEN Get(lc, "weather", <<>>) ELSE <<>>
        soil    == IF lc # None THEN Get(lc, "soil", <<>>) ELSE <<>>
        Of(rec, outer, key) == IF rec # <<>> THEN GetNone(Get(rec, outer, <<>>), key)
                               ELSE "Unknown"
        prompt  == <<self.pest_or_disease, self.severity, self.plant_type,
                     self.infestation_level,
                     Of(weather, "location", "city"), Of(weather, "current", "temperature"),
                     Of(soil, "soil_properties", "soil_texture"),
                     Of(soil, "soil_properties", "drainage_class"),
                     "USER QUESTION:", question>>
        response == generate_content(0, "custom_question", prompt, env)
        answer   == Strip(response.value)
    IN  IF Falsy(self.pest_or_disease) THEN EngineOut(self, START_WITH_IMAGE, <<>>)
        ELSE IF response.raised THEN EngineOut(self, <<"Error:">>, response.events)
        ELSE EngineOut(history_append(self, [type |-> "custom_question",
                                             question |-> question, answer |-> answer]),
                       answer, response.events)

\* the last engine call: its inputs, what it returned, the external calls it
\* made and the history before it; n counts the calls since the last reset
EngineCall(op, option, env, out, n) ==
    [op |-> op, option |-> option, env |-> env, value |-> out.value,
     events |-> out.events, before |-> engine.conversation_history,
     had_context |-> has_context(engine), n |-> n]

NoEngineEnv  == [failing |-> {}, mentions |-> <<>>, searchFails |-> {}, padded |-> FALSE]
NoEngineCall == [op |-> "none", option |-> 0, env |-> NoEngineEnv, value |-> <<>>,
                 events |-> <<>>, before |-> <<>>, had_context |-> FALSE, n |-> 0]

InitEngine == engine = EngineInit /\ engineCall = NoEngineCall

EnginePests        == {"", "Aphids"}
EngineInfestations == {"Unknown", "high"}
EngineOptions      == 1..6

\* engine.set_detection_context(...) (qa_engine.py:35-43)
set_detection_context ==
    /\ engineCall.n < MaxEngineCalls
    /\ \E pest \in EnginePests, infestation \in EngineInfestations :
         LET self == [engine EXCEPT !.pest_or_disease = pest, !.severity = "Moderate",
                                    !.subject_type = "pest", !.plant_type = "Tomato",
                                    !.infestation_level = infestation]
         IN  /\ engine' = self
             /\ engineCall' = EngineCall("set_detection_context", 0, NoEngineEnv,
                                         EngineOut(self, <<>>, <<>>), engineCall.n + 1)

\* engine.set_location_context(weather, soil) (qa_engine.py:45-50)
set_location_context ==
    /\ engineCall.n < MaxEngineCalls
    /\ \E weather \in {WeatherRecord("92336"), ErrorRecord("92336", "weather")} :
         LET self == [engine EXCEPT !.location_context =
                         [weather |-> weather, soil |-> SoilRecord("92336")]]
         IN  /\ engine' = self
             /\ engineCall' = EngineCall("set_location_context", 0, NoEngineEnv,
                                         EngineOut(self, <<>>, <<>>), engineCall.n + 1)

\* engine.answer_menu_selection(option)
EngineMenu ==
    /\ engineCall.n < MaxEngineCalls
    /\ \E option \in EngineOptions : \E env \in EngineEnvs(option) :
         LET out == answer_menu_selection(engine, option, env)
         IN  /\ engine' = out.self
             /\ engineCall' = EngineCall("answer_menu_selection", option, env, out,
                                         engineCall.n + 1)

\* engine.ask_custom_question(question)
EngineAsk ==
    /\ engineCall.n < MaxEngineCalls
    /\ \E question \in Questions \ {""} : \E env \in EngineEnvs(0) :
         LET out == engine_ask_custom_question(engine, question, env)
         IN  /\ engine' = out.self
             /\ engineCall' = EngineCall("ask_custom_question", 0, env, out,
                                         engineCall.n + 1)

\* engine.reset_context() (qa_engine.py:495-502)
reset_context ==
    /\ engineCall.op # "none"
    /\ engine' = EngineInit
    /\ engineCall' = EngineCall("reset_context", 0, NoEngineEnv,
                                EngineOut(EngineInit, <<>>, <<>>), 0)

-----------------------------------------------------------------------------
(* location_service.py : LocationService._determine_texture                 *)
(* A Python value is None, a number or a string: k says which, n and s hold *)
(* the number and the string.                                               *)

PyNone   == [k |-> "None", n |-> 0, s |-> ""]
PyNum(x) == [k |-> "num",  n |-> x, s |-> ""]
PyStr(t) == [k |-> "str",  n |-> 0, s |-> t]

\* truth value of a Python value
Truthy(v) == CASE v.k = "None" -> FALSE [] v.k = "num" -> v.n # 0 [] OTHER -> v.s # ""

\* float(v): a number, or the ValueError of a string that is no number
FloatError == [k |-> "ValueError", n |-> 0, s |-> ""]
Float(v) ==
    CASE v.k = "num" -> v
      [] v.k = "str" /\ v.s = "45" -> PyNum(45)
      [] v.k = "str" /\ v.s = "10" -> PyNum(10)
      [] OTHER -> FloatError

\* float(x) if x and x != "None" else None   (location_service.py:251-253)
texture_operand(v) == IF Truthy(v) /\ v # PyStr("None") THEN Float(v) ELSE PyNone

_determine_texture(clay, sand, silt) ==
    LET c  == texture_operand(clay)
        sa == texture_operand(sand)
        si == texture_operand(silt)
    IN  IF FloatError \in {c, sa, si} THEN "Unknown"
        ELSE IF ~(Truthy(c) /\ Truthy(sa) /\ Truthy(si)) THEN "Unknown"
        ELSE IF c.n >= 40 THEN "Clay"
        ELSE IF c.n >= 27 THEN (IF sa.n > 45 THEN "Sandy Clay" ELSE "Clay Loam")
        ELSE IF c.n >= 20 THEN (IF sa.n > 45 THEN "Sandy Clay Loam" ELSE "Loam")
        ELSE IF sa.n >= 70 THEN (IF c.n >= 15 THEN "Sandy Clay Loam" ELSE "Sandy Loam")
        ELSE IF si.n >= 50 THEN (IF c.n < 12 THEN "Silt Loam" ELSE "Silty Clay Loam")
        ELSE "Loam"

TextureOperands == {PyNone, PyStr("None"), PyStr(""), PyStr("abc"), PyStr("45")}
                   \cup {PyNum(x) : x \in {0, 10, 25, 30, 45, 75}}

TextureInputs == [fn : {"_determine_texture"}, clay : TextureOperands,
                  sand : TextureOperands, silt : TextureOperands]

DetermineTexture ==
    /\ extracted = Pending
    /\ content.fn = "_determine_texture"
    /\ extracted' = [fn |-> "_determine_texture",
                     value |-> <<_determine_texture(content.clay, content.sand,
                                                    content.silt)>>]
    /\ UNCHANGED content

-----------------------------------------------------------------------------
(* location_service.py : LocationService.  The outcome of each external     *)
(* request of one call is drawn from the environment of the call.           *)

RequestEv(what) == [ev |-> "request", what |-> what, chan |-> 0, prompt |-> <<>>]

\* outcomes of the geocoding request: coordinates, a response without a
\* latLonList text, a text that is no pair of numbers, a failing request
GeoOutcomes == {"ok", "no_latlon", "malformed", "request_error"}

\* a variant that gives up only when the request itself fails
zip_to_coordinates_unchecked(zipcode, env) ==
    [coords |-> IF env.geo # "request_error" THEN <<"34.1", "-117.4">> ELSE <<>>,
     events |-> <<RequestEv("geocode")>>]

\* a variant that sends the geocoding request a second time when it fails
zip_to_coordinates_retrying(zipcode, env) ==
    [coords |-> IF env.geo = "ok" THEN <<"34.1", "-117.4">> ELSE <<>>,
     events |-> IF env.geo = "request_error"
                THEN <<RequestEv("geocode"), RequestEv("geocode")>>
                ELSE <<RequestEv("geocode")>>]

\* zip_to_coordinates: the coordinate pair, or None (<<>>)
zip_to_coordinates(zipcode, env) ==
    [coords |-> IF env.geo = "ok" THEN <<"34.1", "-117.4">> ELSE <<>>,
     events |-> <<RequestEv("geocode")>>]

\* a variant whose error record does not carry the postal code
LocationError_without_zipcode(zipcode, what) == [error |-> what]

LocationError(zipcode, what) == [error |-> what, zipcode |-> zipcode]

\* outcomes of the grid-point request and of the forecast request: a usable
\* response, a failing request, a response without the key that is read
PointsOutcomes   == {"ok", "request_error", "no_forecast_url", "no_city"}
ForecastOutcomes == {"ok", "request_error", "no_periods"}

FORECAST_PERIODS == 6

\* the i-th period of the forecast response
PeriodName(i) == <<"Today", "Tonight", "Monday", "Monday Night", "Tuesday",
                   "Tuesday Night", "Wednesday", "Wednesday Night">>[i]

Period(i) == [name |-> PeriodName(i), temperature |-> "72",
              temperatureUnit |-> "F", windSpeed |-> "5 mph", windDirection |-> "W",
              shortForecast |-> "Sunny", detailedForecast |-> "Sunny, high near 72"]

\* LocationService.get_weather_data (location_service.py:45-107)
service_get_weather_data(zipcode, env) ==
    LET geo     == zip_to_coordinates(zipcode, env)
        periods == [i \in 1..env.periods |-> Period(i)]
        current == IF periods # <<>> THEN periods[1] ELSE <<>>
        shown   == SubSeq(periods, 1, IF Len(periods) < FORECAST_PERIODS THEN Len(periods)
                                      ELSE FORECAST_PERIODS)
        weather_info ==
            [zipcode |-> zipcode,
             location |-> [latitude |-> geo.coords[1], longitude |-> geo.coords[2],
                           city |-> "Fontana", state |-> "CA"],
             current |-> [temperature |-> Get(current, "temperature", NoneStr),
                          temperature_unit |-> Get(current, "temperatureUnit", NoneStr),
                          wind_speed |-> Get(current, "windSpeed", NoneStr),
                          wind_direction |-> Get(current, "windDirection", NoneStr),
                          short_forecast |-> Get(current, "shortForecast", NoneStr),
                          detailed_forecast |-> Get(current, "detailedForecast", NoneStr)],
             forecast_3day |-> [i \in 1..Len(shown) |->
                                  [name |-> Get(shown[i], "name", NoneStr),
                                   temperature |-> Get(shown[i], "temperature", NoneStr),
                                   short_forecast |-> Get(shown[i], "shortForecast", NoneStr)]]]
    IN  IF geo.coords = <<>>
        THEN [value |-> LocationError(zipcode, "Could not find location for zip code"),
              events |-> geo.events]
        ELSE IF env.points \in {"request_error", "no_forecast_url"}
        THEN [value |-> LocationError(zipcode, "Failed to fetch weather data"),
              events |-> geo.events \o <<RequestEv("points")>>]
        ELSE IF env.forecast # "ok" \/ env.points = "no_city"
        THEN [value |-> LocationError(zipcode, "Failed to fetch weather data"),
              events |-> geo.events \o <<RequestEv("points"), RequestEv("forecast")>>]
        ELSE [value |-> weather_info,
              events |-> geo.events \o <<RequestEv("points"), RequestEv("forecast")>>]

\* outcomes of the soil query: a table, an empty table, no table, a failure
SoilOutcomes == {"ok", "empty_table", "no_table", "request_error"}

\* first rows of the table the soil query returns
SoilRows ==
    {<<PyStr("Hanford sandy loam"), PyStr("HcC"), PyStr("Hanford"), PyStr("Entisols"),
       PyStr("Typic Xerorthents"), PyStr("Well drained"),
       PyStr("45"), PyStr("45"), PyStr("10"), PyStr("45"), PyStr("10")>>,
     <<PyStr("Urban land"), PyStr("Ur"), PyStr("Urban land"), PyNone, PyNone, PyNone,
       PyNone, PyNone, PyStr("45"), PyStr("abc"), PyStr("")>>,
     <<PyStr("Water"), PyStr("W")>>}

\* safe_float (location_service.py:178-185)
safe_float(value) ==
    IF value \in {PyNone, PyStr("None"), PyStr("")} THEN PyNone
    ELSE IF Float(value) = FloatError THEN PyNone ELSE Float(value)

\* row[i] if len(row) > i and row[i] else "Unknown"
RowText(row, i) == IF Len(row) >= i /\ Truthy(row[i]) THEN row[i].s ELSE "Unknown"
\* safe_float(row[i]) if len(row) > i else None
RowFloat(row, i) == IF Len(row) >= i THEN safe_float(row[i]) ELSE PyNone
\* round(x, 1) if x is not None else "Not available"
Rounded(x) == IF x # PyNone THEN x ELSE PyStr("Not available")

\* LocationService.get_soil_data (location_service.py:109-241)
service_get_soil_data(zipcode, env) ==
    LET geo  == zip_to_coordinates(zipcode, env)
        row  == env.row
        sand == RowFloat(row, 7)
        silt == RowFloat(row, 8)
        clay == RowFloat(row, 9)
        found ==
            [zipcode |-> zipcode,
             location |-> [latitude |-> geo.coords[1], longitude |-> geo.coords[2]],
             soil_properties |->
                [soil_name |-> RowText(row, 1), soil_symbol |-> RowText(row, 2),
                 component_name |-> RowText(row, 3), soil_order |-> RowText(row, 4),
                 soil_subgroup |-> RowText(row, 5), drainage_class |-> RowText(row, 6),
                 sand_percent |-> Rounded(sand), silt_percent |-> Rounded(silt),
                 clay_percent |-> Rounded(clay),
                 soil_texture |-> _determine_texture(clay, sand, silt),
                 ph |-> Rounded(RowFloat(row, 10)),
                 organic_matter_percent |-> Rounded(RowFloat(row, 11))],
             data_source |-> "USDA SSURGO via Soil Data Access"]
        no_coverage ==
            [zipcode |-> zipcode,
             soil_properties |->
                [soil_name |-> "No detailed soil data available for this location"],
             data_source |-> "USDA SSURGO via Soil Data Access",
             note |-> "This location may not have detailed SSURGO coverage"]
        query == geo.events \o <<RequestEv("soil_query")>>
    IN  IF geo.coords = <<>>
        THEN [value |-> LocationError(zipcode, "Could not find location for zip code"),
              events |-> geo.events]
        ELSE CASE env.soil = "request_error" ->
                    [value |-> LocationError(zipcode, "Failed to fetch soil data"),
                     events |-> query]
               [] env.soil = "ok" -> [value |-> found, events |-> query]
               [] OTHER           -> [value |-> no_coverage, events |-> query]

WeatherEnvs == [geo : GeoOutcomes, points : PointsOutcomes, forecast : ForecastOutcomes,
                periods : {0, 1, 7}]
SoilEnvs    == [geo : GeoOutcomes, soil : SoilOutcomes, row : SoilRows]

WeatherInputs == [fn : {"get_weather_data"}, zipcode : Zipcodes, env : WeatherEnvs]
SoilInputs    == [fn : {"get_soil_data"}, zipcode : Zipcodes, env : SoilEnvs]

\* one call of a function of the service on the drawn input
ServiceResult(fn, out) == [fn |-> fn, value |-> out.value, events |-> out.events]

GetWeatherData ==
    /\ extracted = Pending
    /\ content.fn = "get_weather_data"
    /\ extracted' = ServiceResult("get_weather_data",
                                  service_get_weather_data(content.zipcode, content.env))
    /\ UNCHANGED content

GetSoilData ==
    /\ extracted = Pending
    /\ content.fn = "get_soil_data"
    /\ extracted' = ServiceResult("get_soil_data",
                                  service_get_soil_data(content.zipcode, content.env))
    /\ UNCHANGED content

\* a weather record with n forecast entries, as format_weather_display may be
\* handed one by any caller
WeatherDataOf(zipcode, n) ==
    [zipcode |-> zipcode,
     location |-> [latitude |-> "34.1", longitude |-> "-117.4", city |-> "Fontana",
                   state |-> "CA"],
     current |-> [temperature |-> "72", temperature_unit |-> "F", wind_speed |-> "5 mph",
                  wind_direction |-> "W", short_forecast |-> "Sunny"],
     forecast_3day |-> [i \in 1..n |-> [name |-> PeriodName(i), temperature |-> "72",
                                        short_forecast |-> "Sunny"]]]

DisplayInputs == [fn : {"format_weather_display"}, zipcode : {"92336"}, n : {0, 1, 6, 7, 8}]

\* format_weather_display (qa_engine_agentic.py:63-84) applied to a weather record
FormatWeatherDisplay ==
    /\ extracted = Pending
    /\ content.fn = "format_weather_display"
    /\ extracted' = [fn |-> "format_weather_display",
                     value |-> format_weather_display(WeatherDataOf(content.zipcode, content.n)),
                     events |-> <<>>]
    /\ UNCHANGED content

-----------------------------------------------------------------------------
(* The detectors' identify: one classifier call on an image, then the       *)
(* extractors on the classifier's text.                                     *)

\* `phrase in content_lower` for a phrase that ends with its colon: a head
\* with markdown emphasis has "**" before the colon and does not hold it
ContainsText(text, phrase) == \E i \in DOMAIN text : LowerTok(text[i].head) = phrase

\* plant_pest_detector.py: PlantPestDetector.extract_subject_type
extract_subject_type(text) ==
    IF text = <<>> \/ StartsWithErrorOrAPI(text) THEN "error"
    ELSE IF ContainsText(text, "plant species:") \/ ContainsText(text, "health status:")
        THEN "plant"
    ELSE IF ContainsText(text, "insect species:") \/ ContainsText(text, "classification:")
        THEN "pest"
    ELSE "unknown"

\* plant_pest_detector2.py: PlantPestDetector.extract_subject_type
extract_subject_type2(text) ==
    IF text = <<>> \/ StartsWithErrorOrAPI(text) THEN "error"
    ELSE IF \E i \in DOMAIN text : ContainsPhrase(text[i], "insect species") THEN "pest"
    ELSE IF \E i \in DOMAIN text : ContainsPhrase(text[i], "plant species") THEN "plant"
    ELSE "unknown"          \* no text of the model holds "classification:"

\* celebrity_detector/app/plant_detector.py: extract_subject_type (no error guard)
extract_subject_type_cd(text) ==
    IF ContainsText(text, "plant species:") \/ ContainsText(text, "health status:")
        THEN "plant"
    ELSE IF ContainsText(text, "insect species:") \/ ContainsText(text, "classification:")
        THEN "pest"
    ELSE "unknown"

\* what the classifier call does: it answers with a text, or an exception of
\* the named class is raised by the request ("HTTPError": a non-200 status,
\* which only raise_for_status turns into an exception) or by taking the
\* payload apart ("KeyError": a key is missing, "TypeError": a value of the
\* payload has the wrong type)
ClassifierOutcomes == {"ok", "RequestException", "HTTPError", "KeyError", "TypeError"}

ErrorText(head) == <<[head |-> head, val |-> <<" ", "<exception>">>]>>
ERROR_ANALYZING == <<[head |-> "Error analyzing image", val |-> <<>>]>>
SHORT_SUMMARY   == <<[head |-> "<summary>", val |-> <<>>]>>

\* str.strip() of a whole text
StripText(text) == IF text = <<>> THEN text
                   ELSE [text EXCEPT ![Len(text)].val = RStrip(@)]

\* identify returns a value, or an exception leaves it, after n classifier calls
Returns(value, n) == [value |-> value, raised |-> "",
                      events |-> [i \in 1..n |-> RequestEv("classifier")]]
Escapes(exc, n)   == [value |-> <<>>, raised |-> exc,
                      events |-> [i \in 1..n |-> RequestEv("classifier")]]

\* plant_pest_detector.py: PlantPestDetector.identify
identify(result, outcome) ==
    CASE outcome = "ok" ->
             Returns(<<result, extract_subject_type(result),
                        extract_primary_id(result)>>, 1)
      [] outcome \in {"RequestException", "HTTPError"} ->
             Returns(<<ErrorText("API request failed:"), "error", <<>>>>, 1)
      [] outcome = "KeyError" ->
             Returns(<<ErrorText("Failed to parse API response:"), "error", <<>>>>, 1)
      [] OTHER -> Escapes(outcome, 1)

\* plant_pest_detector2.py: PlantPestDetector.identify (two classifier calls;
\* a failing outcome is the outcome of the first)
identify2(result, outcome) ==
    LET full_analysis == StripText(result)
    IN  IF outcome = "ok"
        THEN Returns(<<SHORT_SUMMARY, full_analysis, extract_subject_type2(full_analysis),
                        extract_primary_id2(full_analysis)>>, 2)
        ELSE Returns(<<ErrorText("API request failed:"), ErrorText("API request failed:"),
                        "error", ErrorId>>, 1)

\* celebrity_detector/app/plant_detector.py: PlantPestDetector.identify
identify_cd(result, outcome) ==
    CASE outcome = "ok" ->
             Returns(<<result, extract_subject_type_cd(result),
                        extract_primary_id_cd(result)>>, 1)
      [] outcome = "HTTPError" -> Returns(<<ERROR_ANALYZING, "unknown", <<>>>>, 1)
      [] OTHER -> Escapes(outcome, 1)

IdentifyFns    == {"identify", "identify2", "identify_cd"}
IdentifyTexts  == {t \in Texts : Len(t) <= 1}
IdentifyInputs == [fn : IdentifyFns, result : IdentifyTexts, outcome : ClassifierOutcomes]

IdentifyResult(fn, out) == [fn |-> fn, value |-> out.value, events |-> out.events,
                            raised |-> out.raised]

\* one call of a detector's identify
Identify ==
    /\ extracted = Pending
    /\ content.fn \in IdentifyFns
    /\ extracted' = IdentifyResult(content.fn,
                        CASE content.fn = "identify"  -> identify(content.result, content.outcome)
                          [] content.fn = "identify2" -> identify2(content.result, content.outcome)
                          [] OTHER -> identify_cd(content.result, content.outcome))
    /\ UNCHANGED content

-----------------------------------------------------------------------------
(* The get_location_context tool of the two tool servers *)

\* the methods class LocationService defines (location_service.py:9-284)
LocationServiceMethods == {"__init__", "zip_to_coordinates", "get_weather_data",
                           "get_soil_data", "_determine_texture"}

\* an attribute that the object does not have raises AttributeError
CallMethod(method, out) ==
    IF method \in LocationServiceMethods
    THEN [value |-> out.value, raised |-> "", events |-> out.events]
    ELSE [value |-> <<>>, raised |-> "AttributeError", events |-> <<>>]

\* mcp_server/weather_tools.py: get_location_context
weather_tools_get_location_context(zipcode, env) ==
    LET weather == CallMethod("get_weather_data", service_get_weather_data(zipcode, env))
        soil    == CallMethod("get_soil_data", service_get_soil_data(zipcode, env))
    IN  [value |-> [zipcode |-> zipcode, weather |-> weather.value, soil |-> soil.value],
         raised |-> "", events |-> weather.events \o soil.events]

\* mcp_server/agri_tools.py: get_location_context, which hands the call over to
\* location_service.get_location_context
agri_tools_get_location_context(zipcode, env) ==
    CallMethod("get_location_context", weather_tools_get_location_context(zipcode, env))

ContextFns == {"weather_tools.get_location_context", "agri_tools.get_location_context"}

ContextInputs ==
    [fn : ContextFns, zipcode : Zipcodes,
     env : [geo : {"ok", "no_latlon"}, points : {"ok", "request_error"}, forecast : {"ok"},
            periods : {1}, soil : {"ok", "empty_table", "request_error"},
            row : {<<PyStr("Water"), PyStr("W")>>}]]

\* one call of the tool
GetLocationContext ==
    /\ extracted = Pending
    /\ content.fn \in ContextFns
    /\ extracted' = IdentifyResult(content.fn,
                        IF content.fn = "weather_tools.get_location_context"
                        THEN weather_tools_get_location_context(content.zipcode, content.env)
                        ELSE agri_tools_get_location_context(content.zipcode, content.env))
    /\ UNCHANGED content

-----------------------------------------------------------------------------
(* Startup of the components that hold an API credential.  The credential   *)
(* is os.getenv(NAME): None when the variable is unset.                     *)

\* __init__ of PlantPestDetector (plant_pest_detector.py, plant_pest_detector2.py),
\* AgriQAEngine and SerperProductSearch, and the load of qa_engine_agentic.py:
\* `if not api_key: raise ValueError(...)`
init_checked(api_key) ==
    IF ~Truthy(api_key) THEN Escapes("ValueError", 0)
    ELSE Returns([api_key |-> api_key], 0)

\* __init__ of PlantPestDetector of celebrity_detector/app/plant_detector.py
init_cd(api_key) == Returns([api_key |-> api_key], 0)

Components == {"plant_pest_detector", "plant_pest_detector2", "celebrity_detector",
               "qa_engine", "agri_tools", "qa_engine_agentic"}

construct(component, api_key) ==
    IF component = "celebrity_detector" THEN init_cd(api_key) ELSE init_checked(api_key)

Credentials     == {PyNone, PyStr(""), PyStr("key")}
ConstructInputs == [fn : {"construct"}, component : Components, api_key : Credentials]

\* one component is constructed (or its module loaded)
Construct ==
    /\ extracted = Pending
    /\ content.fn = "construct"
    /\ extracted' = IdentifyResult("construct", construct(content.component, content.api_key))
    /\ UNCHANGED content

-----------------------------------------------------------------------------
(* Product search: SerperProductSearch of mcp_server/agri_tools.py and      *)
(* search_amazon_products of mcp_server/amazon_tools.py.  A URL is the      *)
(* sequence of its parts; a query is the sequence of its words and blanks.  *)

AMAZON == "https://www.amazon.com"

\* the paths of the links a search answers with
Paths == {<<"/dp/", "B00ABCDE12">>, <<"/dp/", "B00">>, <<"/gp/product/", "B00ABCDE12">>,
          <<"/s?", "k=", "neem">>, <<"/sspa/click">>}

Has(url, part) == \E i \in DOMAIN url : url[i] = part

\* re.search(part + r'([A-Z0-9]{10})', url): "B00ABCDE12" is the only part of
\* the model that starts with ten characters of [A-Z0-9]
ReSearch(url, part) ==
    \E i \in 1..(Len(url) - 1) : url[i] = part /\ url[i + 1] = "B00ABCDE12"

_validate_amazon_url(url) ==
    IF url = <<>> \/ url = <<"#">> THEN FALSE
    ELSE IF Has(url, "/dp/") THEN ReSearch(url, "/dp/")
    ELSE IF Has(url, "/gp/product/") THEN ReSearch(url, "/gp/product/")
    ELSE Has(url, "/s?") /\ Has(url, "k=")

Queries == {<<"neem", " ", "oil">>, <<"bt">>}

\* f"https://www.amazon.com/s?k={query.replace(' ', '+')}"
search_link(query) ==
    <<AMAZON, "/s?", "k=">> \o [i \in DOMAIN query |-> IF query[i] = " " THEN "+" ELSE query[i]]

\* the for loop of _parse_response over the organic results; an item that is
\* not a dict raises in item.get, which ends the loop with the products so far
RECURSIVE parse_items(_, _, _)
parse_items(items, products, max_results) ==
    IF items = <<>> \/ Len(products) >= max_results THEN products
    ELSE IF "malformed" \in DOMAIN Head(items) THEN products
    ELSE LET title == Get(Head(items), "title", "Unknown Product")
             link  == Get(Head(items), "link", <<"#">>)
         IN  IF ~_validate_amazon_url(link)
             THEN parse_items(Tail(items), products, max_results)
             ELSE parse_items(Tail(items), Append(products, [name |-> <<title>>, url |-> link]),
                              max_results)

_parse_response(data, original_query, max_results) ==
    LET is_dict  == "malformed" \notin DOMAIN data
        organic  == Get(data, "organic", <<>>)
        products == IF is_dict THEN parse_items(organic, <<>>, max_results) ELSE <<>>
    IN  IF is_dict /\ organic = <<>> THEN <<>>
        ELSE IF products = <<>>
        THEN <<[name |-> <<"View search results for: ">> \o original_query,
                url  |-> search_link(original_query)]>>
        ELSE products

\* what the search request does: it answers with a payload, or the request,
\* its status or the decoding of its body raises
SearchOutcomes == {"ok", "request_error", "http_error", "bad_body"}

search_products(query, max_results, env) ==
    IF env.outcome # "ok"
    THEN <<[name |-> <<"Search results for: ">> \o query, url |-> search_link(query)]>>
    ELSE _parse_response(env.data, query, max_results)

\* the for loop of amazon_tools.search_amazon_products over the sliced result
\* blocks; a block that raises, or has no link, is passed over
RECURSIVE amazon_items(_)
amazon_items(items) ==
    IF items = <<>> THEN <<>>
    ELSE IF "malformed" \in DOMAIN Head(items) \/ "href" \notin DOMAIN Head(items)
    THEN amazon_items(Tail(items))
    ELSE <<[name   |-> <<Get(Head(items), "title", "Unknown Product")>>,
            price  |-> "Price not available",
            url    |-> <<AMAZON>> \o Head(items).href,
            rating |-> "No rating"]>> \o amazon_items(Tail(items))

amazon_tools_search(query, max_results, env) ==
    LET product_items == env.data
        sliced   == SubSeq(product_items, 1,
                           IF max_results < Len(product_items) THEN max_results
                           ELSE Len(product_items))
        products == amazon_items(sliced)
    IN  IF env.outcome # "ok"
        THEN <<[error |-> <<"Search failed: ", "<exception>">>, query |-> query]>>
        ELSE IF products = <<>>
        THEN <<[error |-> <<"No products found">>, query |-> query]>>
        ELSE products

SerperItems == {[title |-> "Neem Oil", link |-> <<AMAZON>> \o p] : p \in Paths}
               \cup {[title |-> "Neem Oil"], [malformed |-> TRUE]}
AmazonItems == {[title |-> "Neem Oil", href |-> p] : p \in Paths}
               \cup {[title |-> "Neem Oil"], [malformed |-> TRUE]}

SeqsUpTo(S, n) == UNION {[1..k -> S] : k \in 0..n}

SerperEnvs == [outcome : SearchOutcomes,
               data : {[organic |-> o] : o \in SeqsUpTo(SerperItems, MaxItems)}
                      \cup {[malformed |-> TRUE], [credits |-> 1]}]
AmazonEnvs == [outcome : SearchOutcomes, data : SeqsUpTo(AmazonItems, MaxItems)]

SearchInputs ==
    [fn : {"search_products"}, query : Queries, max_results : 0..MaxItems, env : SerperEnvs]
    \cup [fn : {"search_amazon_products"}, query : Queries, max_results : 0..MaxItems,
          env : AmazonEnvs]

\* one call of a product search
SearchProducts ==
    /\ extracted = Pending
    /\ content.fn \in {"search_products", "search_amazon_products"}
    /\ extracted' =
          [fn |-> content.fn,
           value |-> IF content.fn = "search_products"
                     THEN search_products(content.query, content.max_results, content.env)
                     ELSE amazon_tools_search(content.query, content.max_results, content.env),
           events |-> <<RequestEv("search")>>]
    /\ UNCHANGED content

-----------------------------------------------------------------------------
(* Specifications *)

\* the web app with the agentic dispatcher
Init == InitApp /\ InitHarness /\ content = <<>> /\ extracted = Pending /\ InitEngine

Next ==
    \/ (Analyze /\ UNCHANGED <<extractVars, harnessVars, engineVars>>)
    \/ (DetailsSubmit /\ UNCHANGED <<extractVars, harnessVars, engineVars>>)
    \/ (SoilTab /\ UNCHANGED <<extractVars, harnessVars, engineVars>>)
    \/ (WeatherTab /\ UNCHANGED <<extractVars, harnessVars, engineVars>>)
    \/ (MonitoringTab /\ UNCHANGED <<extractVars, harnessVars, engineVars>>)
    \/ (ReportTab /\ UNCHANGED <<extractVars, harnessVars, engineVars>>)
    \/ (AskTab /\ UNCHANGED <<extractVars, harnessVars, engineVars>>)
    \/ (reset_session /\ UNCHANGED <<extractVars, harnessVars, engineVars>>)

Spec == Init /\ [][Next]_vars

\* the command-line harness with the agentic dispatcher
NextHarness ==
    \/ (HarnessStart /\ UNCHANGED <<extractVars, engineVars>>)
    \/ (HarnessMenu /\ UNCHANGED <<extractVars, engineVars>>)

SpecHarness == Init /\ [][NextHarness]_vars

\* the class based QA engine
NextEngine ==
    \/ (set_detection_context /\ UNCHANGED <<extractVars, appVars, harnessVars>>)
    \/ (set_location_context /\ UNCHANGED <<extractVars, appVars, harnessVars>>)
    \/ (EngineMenu /\ UNCHANGED <<extractVars, appVars, harnessVars>>)
    \/ (EngineAsk /\ UNCHANGED <<extractVars, appVars, harnessVars>>)
    \/ (reset_context /\ UNCHANGED <<extractVars, appVars, harnessVars>>)

SpecEngine == Init /\ [][NextEngine]_vars

\* the location service, the detectors' identify and the product search applied
\* to bounded inputs and outcomes of their external calls
ServiceInputs == TextureInputs \cup WeatherInputs \cup SoilInputs \cup IdentifyInputs
                 \cup ConstructInputs \cup SearchInputs
                 \cup DisplayInputs \cup ContextInputs
InitS == content \in ServiceInputs /\ extracted = Pending /\ InitApp /\ InitHarness
         /\ InitEngine

NextS ==
    \/ (DetermineTexture /\ UNCHANGED <<appVars, harnessVars, engineVars>>)
    \/ (GetWeatherData /\ UNCHANGED <<appVars, harnessVars, engineVars>>)
    \/ (GetSoilData /\ UNCHANGED <<appVars, harnessVars, engineVars>>)
    \/ (Identify /\ UNCHANGED <<appVars, harnessVars, engineVars>>)
    \/ (Construct /\ UNCHANGED <<appVars, harnessVars, engineVars>>)
    \/ (SearchProducts /\ UNCHANGED <<appVars, harnessVars, engineVars>>)
    \/ (FormatWeatherDisplay /\ UNCHANGED <<appVars, harnessVars, engineVars>>)
    \/ (GetLocationContext /\ UNCHANGED <<appVars, harnessVars, engineVars>>)

SpecServices == InitS /\ [][NextS]_vars

\* the detectors' extractors applied to classifier texts
InitX == InitExtract /\ InitApp /\ InitHarness /\ InitEngine

NextX ==
    \/ (ExtractPrimaryId /\ UNCHANGED <<appVars, harnessVars, engineVars>>)
    \/ (ExtractPrimaryId2 /\ UNCHANGED <<appVars, harnessVars, engineVars>>)
    \/ (ExtractPrimaryIdCd /\ UNCHANGED <<appVars, harnessVars, engineVars>>)

SpecExtract == InitX /\ [][NextX]_vars

-----------------------------------------------------------------------------
(* Claims about the extractors (SpecExtract) *)

Placeholder(value) == Lower(value) \in {<<"n/a">>, <<"none">>, <<"unknown">>, <<>>}

\* the trimmed values of the text's disease-name lines that are no placeholder
DiseaseValues(text) ==
    {Strip(text[i].val) : i \in {j \in DOMAIN text :
        LowerTok(text[j].head) = PREFIX_DISEASE /\ ~Placeholder(Strip(text[j].val))}}

\* the text has a plant-species line, and each of them names a species
SpeciesNamed(text) ==
    /\ \E i \in DOMAIN text : LowerTok(text[i].head) = PREFIX_PLANT
    /\ \A i \in DOMAIN text : LowerTok(text[i].head) = PREFIX_PLANT
                                 => ~Placeholder(Strip(text[i].val))

\* C1: for every detector output with a line `- **disease name**: X`, X no
\* placeholder, extract_primary_id returns X trimmed, also when a plant-species
\* line with a non-placeholder value stands before or after it (the case
\* stated here: the text has such a species line).
C1_DiseaseNameReturned ==
    (/\ extracted.fn = "extract_primary_id"
     /\ ~StartsWithErrorOrAPI(content)
     /\ SpeciesNamed(content)
     /\ DiseaseValues(content) # {})
    => extracted.value \in DiseaseValues(content)

Prefixes == {PREFIX_PLANT, PREFIX_DISEASE, PREFIX_INSECT}

\* no line of the text starts with one of the three bullet prefixes
NoBulletPrefix(text) == \A i \in DOMAIN text : LowerTok(text[i].head) \notin Prefixes

\* no line of the text holds one of the phrases the second detector looks for
NoPhrase(text) ==
    \A i \in DOMAIN text : \A ph \in {"insect species", "disease name", "plant species"} :
        ~ContainsPhrase(text[i], ph)

\* C14 as stated: for every text in which no line carries a recognized bullet
\* prefix, extract_primary_id returns "Unidentified".
C14_NoPrefixUnidentified ==
    (extracted.fn \in {"extract_primary_id", "extract_primary_id2"} /\ NoBulletPrefix(content))
    => extracted.value = Unidentified

\* C14 amended: an empty text and a text that starts with "Error" or "API" give
\* "Error"; every other text gives "Unidentified" when no line starts with one
\* of the three bullet prefixes (first detector), or when no line holds one of
\* the phrases "insect species", "disease name", "plant species" (second
\* detector, which matches the phrase anywhere in a line that has a colon).
C14_UnidentifiedOrError ==
    /\ (extracted.fn \in {"extract_primary_id", "extract_primary_id2"}
        /\ (content = <<>> \/ StartsWithErrorOrAPI(content)))
       => extracted.value = ErrorId
    /\ (extracted.fn = "extract_primary_id" /\ content # <<>>
        /\ ~StartsWithErrorOrAPI(content) /\ NoBulletPrefix(content))
       => extracted.value = Unidentified
    /\ (extracted.fn = "extract_primary_id2" /\ content # <<>>
        /\ ~StartsWithErrorOrAPI(content) /\ NoPhrase(content))
       => extracted.value = Unidentified

C14_Witness ==
    /\ extracted.fn = "extract_primary_id"
    /\ Len(content) = 2 /\ NoBulletPrefix(content)
    /\ content[1].head = "Insect Species:" /\ content[2].head = "API request failed:"
    /\ extracted.value = Unidentified

\* the lines that start with one of the three prefixes and whose trimmed value
\* is neither empty nor a placeholder
NamedLines(text) ==
    {i \in DOMAIN text : LowerTok(text[i].head) \in Prefixes
                         /\ ~Placeholder(Strip(text[i].val))}

\* C15: extract_primary_id returns the trimmed value of the first line that
\* starts with one of the three prefixes and whose value is neither empty nor a
\* placeholder; lines with a placeholder value are skipped.
C15_FirstNamedLine ==
    (/\ extracted.fn \in {"extract_primary_id", "extract_primary_id_cd"}
     /\ content # <<>> /\ ~StartsWithErrorOrAPI(content)
     /\ NamedLines(content) # {})
    => LET first == CHOOSE i \in NamedLines(content) : \A j \in NamedLines(content) : i <= j
       IN  extracted.value = Strip(content[first].val)

-----------------------------------------------------------------------------
(* Claims about the agentic dispatcher (SpecHarness) *)

DispatcherOps == {"soil", "weather", "monitoring", "report", "ask"}

\* the events the dispatcher's own code causes: its fetches and its requests,
\* without the tool runs the hosted model makes while it answers a request
DispatcherEvents(events) ==
    Restrict(events, {events[i] : i \in {j \in DOMAIN events : events[j].ev # "tool"}})

EventsOfKind(events, kind) ==
    Restrict(events, {events[i] : i \in {j \in DOMAIN events : events[j].ev = kind}})

REPORT_HEADERS == <<HEADER_TREATMENT, HEADER_SOIL, HEADER_WEATHER, HEADER_MONITORING>>

\* the lines of a report between a section header and the rule that ends the section
Section(report, header) ==
    LET from == IndexOf(report, header) + 1
        ends == {i \in from..Len(report) : report[i] \in {RULE_LIGHT, RULE_HEAVY}
                                           /\ (i = Len(report) \/ report[i + 1] \in
                                                {HEADER_SOIL, HEADER_WEATHER, HEADER_MONITORING})}
        to   == CHOOSE i \in ends : \A j \in ends : i <= j
    IN  SubSeq(report, from, to - 1)

\* C2: menu option 5 always returns a report with the four section headers
\* Treatment, Soil, Weather, Monitoring in that order, whichever sub-calls fail.
C2_ReportHasFourHeaders ==
    lastCall.op = "report" => /\ ~lastCall.raised
                              /\ InOrder(lastCall.result, REPORT_HEADERS)

\* C3: whatever network or model call fails, no exception leaves
\* answer_menu_option, ask_custom_question or generate_treatment_recommendations.
C3_NoExceptionLeaves ==
    lastCall.op \in DispatcherOps \cup {"generate"} => ~lastCall.raised

\* C8 as stated: in a Detailed Report each of the Soil, Weather and Monitoring
\* sections is the text selector 2, 3, 4 returns for the same context and the
\* same external responses.
C8_SectionsAreSelectorTexts ==
    (lastCall.op = "report" /\ ~lastCall.raised)
    => /\ Section(lastCall.result, HEADER_SOIL)
            = answer_menu_option(context, 2, lastCall.env).value
       /\ Section(lastCall.result, HEADER_WEATHER)
            = answer_menu_option(context, 3, lastCall.env).value
       /\ Section(lastCall.result, HEADER_MONITORING)
            = answer_menu_option(context, 4, lastCall.env).value

\* C8 amended: the Monitoring section is selector 4's text; the Soil and Weather
\* sections are the display block selector 2 / 3 shows for the same fetched data
\* followed by the answer to the report's own request, and the report sends
\* neither selector 2's nor selector 3's prompt.
C8_ReportSections ==
    (lastCall.op = "report" /\ ~lastCall.raised)
    => LET env          == lastCall.env
           soil_display == format_soil_display(get_soil_data(context, env).value)
           weather_display == format_weather_display(get_weather_data(context, env).value)
           sends        == EventsOfKind(lastCall.events, "send")
       IN  /\ Section(lastCall.result, HEADER_MONITORING)
                = answer_menu_option(context, 4, env).value
           /\ Section(lastCall.result, HEADER_SOIL)
                = soil_display \o Reply("report_soil_prompt", report_soil_prompt(context))
           /\ IsPrefix(soil_display, answer_menu_option(context, 2, env).value)
           /\ Section(lastCall.result, HEADER_WEATHER)
                = weather_display
                  \o Reply("report_weather_prompt", report_weather_prompt(context))
           /\ IsPrefix(weather_display, answer_menu_option(context, 3, env).value)
           /\ \A i \in DOMAIN sends :
                 sends[i].prompt \notin {soil_prompt(context), weather_prompt(context)}
           /\ \E i \in DOMAIN sends : sends[i].prompt = report_soil_prompt(context)
           /\ \E i \in DOMAIN sends : sends[i].prompt = report_weather_prompt(context)

C8_Witness ==
    /\ lastCall.op = "report" /\ ~lastCall.raised
    /\ lastCall.env.failing = {}
    /\ Section(lastCall.result, HEADER_SOIL) # answer_menu_option(context, 2, lastCall.env).value

\* the data a step of an invocation fetches from the location service: a fetch
\* of the dispatcher's own code, or a run of the get_weather / get_soil_type
\* tool (qa_engine_agentic.py:26-43), "none" for any other event
FetchedData(e) ==
    CASE e.ev = "fetch"                           -> e.what
      [] e.ev = "tool" /\ e.what = "get_weather"   -> "weather"
      [] e.ev = "tool" /\ e.what = "get_soil_type" -> "soil"
      [] OTHER                                    -> "none"

\* the positions in events at which `data` is fetched
FetchesOf(events, data) == {i \in DOMAIN events : FetchedData(events[i]) = data}

\* the position of the request of the given kind, 0 without one
SendAt(events, kind) ==
    LET at == {i \in DOMAIN events : events[i].ev = "send" /\ events[i].what = kind}
    IN  IF at = {} THEN 0 ELSE CHOOSE i \in at : \A j \in at : i <= j

ReportSucceeds == lastCall.op = "report" /\ lastCall.env.failing = {}

\* the five requests of a report, in order, over the session's channel
FiveRequestsInOrder ==
    /\ ~lastCall.raised
    /\ EventsOfKind(lastCall.events, "send")
         = <<SendEv("treatment_prompt", context.chat, treatment_prompt(context)),
             SendEv("product_prompt", context.chat, product_prompt(context)),
             SendEv("report_soil_prompt", context.chat, report_soil_prompt(context)),
             SendEv("report_weather_prompt", context.chat, report_weather_prompt(context)),
             SendEv("monitoring_prompt", context.chat, monitoring_prompt(context))>>

\* C9 as claimed: when every call succeeds, one Detailed Report sends five
\* requests one after another (treatment advice, product search, soil
\* analysis, weather timing, monitoring), and each of weather and soil data is
\* fetched exactly once in the invocation, before the first request.
C9_FetchedOnceBeforeRequests ==
    ReportSucceeds
    => /\ FiveRequestsInOrder
       /\ \A data \in {"weather", "soil"} :
             /\ Cardinality(FetchesOf(lastCall.events, data)) = 1
             /\ \A i \in FetchesOf(lastCall.events, data) :
                   i < SendAt(lastCall.events, "treatment_prompt")

\* C9: when every call succeeds, one Detailed Report sends the five requests
\* one after another in that order; the dispatcher's own code fetches weather
\* and then soil once each before the first request; any further fetch is a
\* run of get_weather or get_soil_type by the hosted model while it answers
\* the treatment request, at most one of each, between the treatment request
\* and the product request.
C9_ReportOrder ==
    ReportSucceeds
    => /\ FiveRequestsInOrder
       /\ DispatcherEvents(lastCall.events)
            = <<FetchEv("weather"), FetchEv("soil")>>
              \o EventsOfKind(lastCall.events, "send")
       /\ \A data \in {"weather", "soil"} :
             LET again == {i \in FetchesOf(lastCall.events, data) :
                              lastCall.events[i].ev = "tool"}
             IN  /\ Cardinality(again) <= 1
                 /\ \A i \in again :
                       /\ SendAt(lastCall.events, "treatment_prompt") < i
                       /\ i < SendAt(lastCall.events, "product_prompt")

\* a report during which the hosted model ran both tools: weather and soil
\* are fetched a second time after the first request
C9_Witness ==
    /\ ReportSucceeds /\ lastCall.env.toolUse
    /\ Len(EventsOfKind(lastCall.events, "send")) = 5
    /\ \A data \in {"weather", "soil"} :
          Cardinality(FetchesOf(lastCall.events, data)) = 2

\* C10: selector 2 makes one soil fetch, no weather fetch and one request;
\* selector 3 one weather fetch, no soil fetch and one request; selector 4 no
\* fetch and one request; in each invocation, also a repeated one.
C10_FetchesPerSelector ==
    LET fetches == EventsOfKind(lastCall.events, "fetch")
        sends   == EventsOfKind(lastCall.events, "send")
    IN  /\ lastCall.op = "soil" => fetches = <<FetchEv("soil")>> /\ Len(sends) = 1
        /\ lastCall.op = "weather" => fetches = <<FetchEv("weather")>> /\ Len(sends) = 1
        /\ lastCall.op = "monitoring" => fetches = <<>> /\ Len(sends) = 1

C10_Witness ==
    /\ lastCall.op = "soil" /\ prevOp = "soil" /\ ~lastCall.raised
    /\ ncalls >= 2

\* the kind of the first conversational request of a call, "none" without one
FirstSend(call) ==
    LET sends == EventsOfKind(call.events, "send")
    IN  IF sends = <<>> THEN "none" ELSE sends[1].what

\* the first request of the procedure behind each selector
ProcedureOf(selector) ==
    CASE selector = 2 -> "soil_prompt" [] selector = 3 -> "weather_prompt"
      [] selector = 4 -> "monitoring_prompt" [] selector = 5 -> "treatment_prompt"
      [] OTHER -> "none"

\* C24: in the harness a menu choice n in 1..4 is dispatched to
\* answer_menu_option with selector n+1, choice 5 to ask_custom_question, and
\* any other input makes no dispatcher call; answer_menu_option returns
\* "Invalid option" without a fetch or a request for a selector outside 2..5;
\* the web tabs pass the selectors 2, 3, 4, 5 in the order of the menu labels.
C24_MenuDispatch ==
    /\ "choice" \in DOMAIN lastCall
       => LET n == IntOf(lastCall.choice)
          IN  /\ n \in 1..4 => /\ lastCall.selector = n + 1
                               /\ FirstSend(lastCall) = ProcedureOf(n + 1)
              /\ n = 5 => /\ lastCall.op = "ask"
                          /\ FirstSend(lastCall) = "question"
                          /\ EventsOfKind(lastCall.events, "fetch") = <<>>
              /\ n \notin 1..5 => /\ lastCall.events = <<>>
                                  /\ lastCall.op \in {"rejected", "quit"}
    /\ context # None
       => \A option \in {0, 1, 6, 7} :
             answer_menu_option(context, option, NoEnv) = Returned(INVALID_OPTION, <<>>)
    /\ \A n \in 1..4 : tab_selectors[n] = n + 1

\* the fourth label of the menu chosen after an input that is no choice
C24_Witness ==
    /\ "choice" \in DOMAIN lastCall /\ lastCall.choice = "4"
    /\ lastCall.op = "report" /\ prevOp = "rejected"

-----------------------------------------------------------------------------
(* Claims about the web app's session (Spec) *)

TabOps == {"soil", "weather", "monitoring", "report", "ask"}

LabelOf(call) ==
    CASE call.op = "soil"       -> "Soil Impact"
      [] call.op = "weather"    -> "Weather Timing"
      [] call.op = "monitoring" -> "Monitoring"
      [] call.op = "report"     -> "Full Report"
      [] call.op = "ask"        -> call.events[1].prompt[1]

\* C4: every conversational request of a session goes over the channel stored
\* in its context at creation; the stored handle is never replaced and no two
\* sessions share a channel.
C4_OneChannelPerSession ==
    /\ stage = "recommendations" => /\ context.sid \in DOMAIN sessions
                                    /\ context.chat = sessions[context.sid]
    /\ \A r \in sent : r.sid \in DOMAIN sessions /\ r.chan = sessions[r.sid]
    /\ \A i, j \in DOMAIN sessions : i # j => sessions[i] # sessions[j]

C4_Witness ==
    /\ Len(sessions) >= 2
    /\ stage = "recommendations" /\ context.sid = 2
    /\ lastCall.op \in TabOps /\ lastCall.sid = 2
    /\ \E r \in sent : r.sid = 1
    /\ \E r \in sent : r.sid = 2

\* C5: each handled Soil Impact, Weather Timing, Monitoring or custom-question
\* action appends exactly one entry to the Conversation Log: the option name
\* (or the literal question) with the answer produced for the action.
C5_OneEntryPerAction ==
    lastCall.op \in {"soil", "weather", "monitoring", "ask"}
    => /\ Len(conversation_history) = lastCall.logLen + 1
       /\ Last(conversation_history) = <<LabelOf(lastCall), lastCall.result>>

\* C7 as stated: the Conversation Log is append-only over every user action,
\* a new analysis (reset) included.
C7_AppendOnly ==
    [][IsPrefix(conversation_history, conversation_history')]_vars

\* C7 amended: every menu selection and custom question leaves the entries of
\* the log unchanged and in place, adding at most one at the end; starting a
\* new analysis (reset_session) empties the log.
C7_AppendOnlyUntilReset ==
    [][IF stage = "recommendations" /\ stage' = "upload"
       THEN conversation_history' = <<>>
       ELSE /\ IsPrefix(conversation_history, conversation_history')
            /\ Len(conversation_history') <= Len(conversation_history) + 1]_vars

C7_Witness ==
    /\ lastCall.op \in TabOps /\ ~lastCall.raised
    /\ Len(conversation_history) >= 2
    /\ Len(sessions) >= 2

\* str.isdigit() of the postal codes of the model
IsDigits(zipcode) == zipcode \in {"9233", "92336"}

\* C21: a details form with a postal code that is not a 5-digit string, or with
\* an empty crop, creates no Session Context, makes no external call and leaves
\* the stage at 'details'; a Session Context only ever holds a 5-digit postal
\* code and a non-empty crop.
C21_InvalidDetailsRejected ==
    /\ lastCall.op = "details" => (lastCall.events = <<>> /\ stage = "details")
    /\ context # None
       => /\ Len(context.zipcode) = 5 /\ IsDigits(context.zipcode)
          /\ context.plant_type # ""

StageMoves == {<<"upload", "details">>, <<"details", "recommendations">>,
               <<"recommendations", "upload">>}

StageInvariant ==
    /\ stage \in {"upload", "details", "recommendations"}
    /\ stage = "details" => detection_results # None
    /\ stage = "recommendations"
       => detection_results # None /\ context # None /\ treatment # NoText
    /\ lastCall.op = "reset"
       => /\ stage = "upload" /\ detection_results = None /\ context = None
          /\ treatment = NoText /\ conversation_history = <<>>

StageStep ==
    /\ stage' # stage => <<stage, stage'>> \in StageMoves
    /\ (stage = "details" /\ stage' = "recommendations")
       => lastCall'.op = "generate" /\ ~lastCall'.raised
    /\ (lastCall'.op = "generate" /\ lastCall'.raised) => UNCHANGED <<stage, context>>

\* C27: the stage only moves upload -> details -> recommendations -> (reset)
\* upload; 'details' implies a stored detection result, 'recommendations' a
\* stored detection result, Session Context and treatment text; the stage
\* becomes 'recommendations' only after the session was created and the
\* treatment generated, and a raise leaves stage and context unchanged; after
\* reset nothing of the previous session remains.
C27_StageMachine == [](StageInvariant) /\ [][StageStep]_vars

\* a reset after a session that logged an answer
C27_Witness ==
    /\ lastCall.op = "reset" /\ stage = "upload"
    /\ lastCall.logLen >= 1 /\ Len(sessions) >= 1

-----------------------------------------------------------------------------
(* Claims about AgriQAEngine (SpecEngine) *)

EngineReportDone ==
    /\ engineCall.op = "answer_menu_selection" /\ engineCall.option = 5
    /\ engineCall.had_context

\* C6: one invocation of the Detailed Report branch appends exactly one entry
\* to the conversation log, the entry that holds the whole composed report;
\* the sections generated while composing it add no entries of their own.
C6_ReportAppendsOneEntry ==
    EngineReportDone =>
        /\ Len(engine.conversation_history) = Len(engineCall.before) + 1
        /\ IsPrefix(engineCall.before, engine.conversation_history)
        /\ Last(engine.conversation_history) =
               [type |-> "detailed_report", content |-> engineCall.value]

EngineAsked == engineCall.op = "ask_custom_question" /\ ~Falsy(engine.pest_or_disease)

\* C11: a custom question is sent as exactly one request whose text is the
\* user's question and nothing else (no context block, no instructions), and
\* the text the model answers is returned unchanged.  Stated for
\* AgriQAEngine.ask_custom_question.
C11_QuestionVerbatim ==
    EngineAsked =>
        /\ \E q \in Questions : engineCall.events = <<GenerateEv("custom_question", <<q>>)>>
        /\ 0 \notin engineCall.env.failing =>
             engineCall.value = generate_content(0, "custom_question",
                                    engineCall.events[1].prompt, engineCall.env).value

\* the guard's condition on the context storage, before a call
ContextUnset(self) ==
    \/ self.pest_or_disease \in {NoneStr, ""}
    \/ self.location_context = None

MissingContextStep ==
    /\ (engineCall'.op = "answer_menu_selection" /\ ContextUnset(engine)) =>
          /\ engineCall'.value = MISSING_CONTEXT
          /\ engineCall'.events = <<>>
          /\ engine'.conversation_history = engine.conversation_history
    /\ engineCall'.op = "reset_context" =>
          /\ engine'.pest_or_disease = NoneStr
          /\ engine'.location_context = None
    /\ (Falsy(engine.pest_or_disease) /\ ~Falsy(engine'.pest_or_disease)) =>
          engineCall'.op = "set_detection_context"
    /\ (engine.location_context = None /\ engine'.location_context # None) =>
          engineCall'.op = "set_location_context"

\* C28: answer_menu_selection returns "Missing context. Please start over."
\* whenever the issue is unset or empty or the location context is unset, for
\* every option, with no model call, no product search and an unchanged
\* conversation_history; reset_context unsets both, and only
\* set_detection_context (with a non-empty issue) and set_location_context set
\* them again.
C28_MissingContext == [][MissingContextStep]_vars

\* a call answered "Missing context" although the location context is set:
\* the issue was set to the empty string
C28_Witness ==
    /\ engineCall.op = "answer_menu_selection"
    /\ engineCall.value = MISSING_CONTEXT
    /\ engine.location_context # None
    /\ engine.pest_or_disease = ""
    /\ engineCall.option = 1

EngineAnswered ==
    /\ engineCall.op = "answer_menu_selection"
    /\ engineCall.had_context

\* C30: with both contexts set, a call of answer_menu_selection for an option
\* in 1..4 appends exactly one entry to conversation_history, holding that
\* option and exactly the text returned, whether the model call succeeds or
\* fails; a call with an invalid option appends nothing.
C30_OneEntryPerAnswer ==
    EngineAnswered =>
        /\ engineCall.option \in 1..4 =>
             /\ Len(engine.conversation_history) = Len(engineCall.before) + 1
             /\ IsPrefix(engineCall.before, engine.conversation_history)
             /\ Last(engine.conversation_history) =
                    MenuEntry(engineCall.option, engineCall.value)
        /\ engineCall.option \notin 1..5 =>
             engine.conversation_history = engineCall.before

-----------------------------------------------------------------------------
(* Claims about the location service, identify and the product search       *)
(* (SpecServices)                                                           *)

TextureDone == extracted.fn = "_determine_texture"

\* C12: with clay = 45 and sand and silt absent the texture is "Clay"; whenever
\* clay >= 40 the texture is "Clay", whatever sand and silt are, absent included.
C12_ClayRuleFirst ==
    (TextureDone /\ content.clay.k = "num" /\ content.clay.n >= 40)
    => extracted.value = <<"Clay">>

LocationDone == extracted.fn \in {"get_weather_data", "get_soil_data"}

\* C13: when geocoding fails (no coordinates, malformed response or request
\* error) get_weather_data and get_soil_data return a record with an `error`
\* field and without `current` and `soil_properties`, and issue no request
\* after the geocoding request.
C13_GeocodingFailure ==
    (LocationDone /\ content.env.geo # "ok")
    => /\ "error" \in DOMAIN extracted.value
       /\ "current" \notin DOMAIN extracted.value
       /\ "soil_properties" \notin DOMAIN extracted.value
       /\ extracted.value.zipcode = content.zipcode
       /\ extracted.events = <<RequestEv("geocode")>>

C13_Witness ==
    /\ extracted.fn = "get_soil_data"
    /\ content.env.geo = "malformed" /\ content.env.soil = "ok"
    /\ "error" \in DOMAIN extracted.value

IdentifyDone == extracted.fn \in IdentifyFns

\* C16: every call of identify of the detector the web app and the harness
\* import, whether the classifier call succeeds or fails, returns a result
\* that can be taken apart into the five fields issue, severity, plant,
\* confidence and subject kind, with issue and severity present.
C16_FiveFields ==
    extracted.fn = "identify"
    => /\ extracted.raised = ""
       /\ Len(extracted.value) = 5
       /\ extracted.value[1] # <<>>
       /\ extracted.value[2] # <<>>

\* C17: when the classifier call fails (non-200 status, network exception or
\* unparsable payload) identify makes no second request and returns a triple
\* whose subject-kind element is "error"; no exception leaves identify.
C17_ErrorTriple ==
    (IdentifyDone /\ content.outcome # "ok")
    => /\ extracted.raised = ""
       /\ Len(extracted.events) = 1
       /\ Len(extracted.value) = 3
       /\ extracted.value[2] = "error"

\* C18: constructing a detector, the QA engine or the product-search client, or
\* loading the agentic engine module, with the credential variable unset raises
\* at once, before any external call.
C18_MissingCredentialRaises ==
    (extracted.fn = "construct" /\ content.api_key = PyNone)
    => /\ extracted.raised = "ValueError"
       /\ extracted.events = <<>>

SearchDone == extracted.fn \in {"search_products", "search_amazon_products"}

\* C19: for every query and every result cap max_results >= 0 the list a
\* product search returns has at most max_results entries, and the URL of
\* every entry passes the marketplace URL validation.
C19_CappedAndValidated ==
    SearchDone
    => /\ Len(extracted.value) <= content.max_results
       /\ \A i \in DOMAIN extracted.value :
             /\ "url" \in DOMAIN extracted.value[i]
             /\ _validate_amazon_url(extracted.value[i].url)

\* the search failed: the request or its payload failed, or the answer holds
\* no result with a valid URL (no result at all included)
SearchFailed ==
    \/ content.env.outcome # "ok"
    \/ /\ content.fn = "search_products"
       /\ \/ "organic" \notin DOMAIN content.env.data
          \/ \A i \in DOMAIN content.env.data.organic :
                ~_validate_amazon_url(Get(content.env.data.organic[i], "link", <<"#">>))
    \/ /\ content.fn = "search_amazon_products"
       /\ \A i \in DOMAIN content.env.data :
             ~_validate_amazon_url(<<AMAZON>> \o Get(content.env.data[i], "href", <<>>))

\* C20: on any failure of a product search the returned list is exactly one
\* fallback entry with a name and the search link of the original query; it
\* is never empty and never an error record.
C20_SingleFallback ==
    (SearchDone /\ SearchFailed)
    => /\ Len(extracted.value) = 1
       /\ "error" \notin DOMAIN extracted.value[1]
       /\ "name" \in DOMAIN extracted.value[1]
       /\ extracted.value[1].url = search_link(content.query)

WeatherContent == {"location", "current", "forecast_3day"}

\* C22: every record of get_weather_data and get_soil_data carries the
\* requested zipcode and exactly one of `error` or content (location, current
\* and forecast_3day for weather, soil_properties for soil); a weather record
\* without `error` has location.city, location.state and the fields of
\* `current` the test reads.
C22_RecordShape ==
    LocationDone
    => LET v == extracted.value
           D == DOMAIN extracted.value
       IN  /\ "zipcode" \in D /\ v.zipcode = content.zipcode
           /\ extracted.fn = "get_weather_data"
              => /\ ("error" \in D) # (WeatherContent \subseteq D)
                 /\ "error" \in D => WeatherContent \cap D = {}
                 /\ "error" \notin D
                    => /\ {"city", "state"} \subseteq DOMAIN v.location
                       /\ {"temperature", "temperature_unit", "wind_speed",
                           "wind_direction", "short_forecast"} \subseteq DOMAIN v.current
           /\ extracted.fn = "get_soil_data"
              => ("error" \in D) # ("soil_properties" \in D)

\* a weather record built from a forecast without any period
C22_Witness ==
    /\ extracted.fn = "get_weather_data"
    /\ content.env.periods = 0
    /\ "error" \notin DOMAIN extracted.value
    /\ extracted.value.location.city = "Fontana"

\* the tokens of a weather display after its forecast title
ForecastEntries(display) ==
    SubSeq(display, IndexOf(display, "**3-Day Forecast:**") + 1, Len(display))

\* C23: the weather record holds at most 6 forecast periods and the weather
\* display lists at most 6 forecast entries, both in the order the weather
\* service returned them, however many periods there are.
C23_ForecastWindow ==
    /\ (extracted.fn = "get_weather_data" /\ "error" \notin DOMAIN extracted.value)
       => LET kept == extracted.value.forecast_3day
          IN  /\ Len(kept) <= 6
              /\ Len(kept) <= content.env.periods
              /\ \A i \in DOMAIN kept : kept[i].name = PeriodName(i)
    /\ extracted.fn = "format_weather_display"
       => LET entries == ForecastEntries(extracted.value)
          IN  /\ Len(entries) <= 3 * 6
              /\ Len(entries) <= 3 * content.n
              /\ \A i \in 1..(Len(entries) \div 3) : entries[3 * i - 2] = PeriodName(i)

\* eight entries handed to the display, six shown
C23_Witness ==
    /\ extracted.fn = "format_weather_display" /\ content.n = 8
    /\ Len(ForecastEntries(extracted.value)) = 18

IsError(value) == DOMAIN value = {"error", "zipcode"}

\* the requests of a soil call: geocoding and the soil query, once each and in
\* that order, the query only after coordinates were found
SoilRequests ==
    extracted.fn = "get_soil_data"
    => /\ content.env.geo # "ok"
          => extracted.events = <<RequestEv("geocode")>> /\ IsError(extracted.value)
       /\ content.env.geo = "ok"
          => extracted.events = <<RequestEv("geocode"), RequestEv("soil_query")>>

\* C25 as stated: no request is repeated; a weather call issues geocoding,
\* grid-point lookup and forecast in that order, each at most once, and a
\* failure of any of them (request error or unusable response) ends the call
\* with an error record before the later requests are issued; a soil call
\* issues geocoding and the soil query at most once each.
C25_FailureStopsRequests ==
    /\ SoilRequests
    /\ extracted.fn = "get_weather_data"
       => LET env == content.env
          IN  /\ env.geo # "ok"
                 => extracted.events = <<RequestEv("geocode")>> /\ IsError(extracted.value)
              /\ (env.geo = "ok" /\ env.points # "ok")
                 => /\ extracted.events = <<RequestEv("geocode"), RequestEv("points")>>
                    /\ IsError(extracted.value)
              /\ (env.geo = "ok" /\ env.points = "ok")
                 => /\ extracted.events = <<RequestEv("geocode"), RequestEv("points"),
                                           RequestEv("forecast")>>
                    /\ env.forecast # "ok" => IsError(extracted.value)

\* C25 amended: the same, except that a grid-point response that names the
\* forecast but lacks the city is found out only when the record is built: the
\* forecast request is then issued once before the error record is returned.
C25_RequestsOnceInOrder ==
    /\ SoilRequests
    /\ extracted.fn = "get_weather_data"
       => LET env == content.env
          IN  /\ env.geo # "ok"
                 => extracted.events = <<RequestEv("geocode")>> /\ IsError(extracted.value)
              /\ (env.geo = "ok" /\ env.points \in {"request_error", "no_forecast_url"})
                 => /\ extracted.events = <<RequestEv("geocode"), RequestEv("points")>>
                    /\ IsError(extracted.value)
              /\ (env.geo = "ok" /\ env.points \in {"ok", "no_city"})
                 => /\ extracted.events = <<RequestEv("geocode"), RequestEv("points"),
                                           RequestEv("forecast")>>
                    /\ (env.forecast # "ok" \/ env.points = "no_city")
                       => IsError(extracted.value)

\* the grid-point request fails after geocoding succeeded
C25_Witness ==
    /\ extracted.fn = "get_weather_data"
    /\ content.env.geo = "ok" /\ content.env.points = "request_error"
    /\ extracted.events = <<RequestEv("geocode"), RequestEv("points")>>

\* C26: in both tool servers get_location_context returns, for every zip
\* code, a combined record holding the weather record and the soil record that
\* get_weather_data and get_soil_data return for it, and never raises.
C26_CombinedRecord ==
    extracted.fn \in ContextFns
    => /\ extracted.raised = ""
       /\ extracted.value.weather
             = service_get_weather_data(content.zipcode, content.env).value
       /\ extracted.value.soil = service_get_soil_data(content.zipcode, content.env).value

\* the lower-cased head of the line extract_primary_id takes its value from,
\* "" when no line yields a value
PrimarySource(text) ==
    LET yielding == {i \in DOMAIN text : primary_id_line(text[i]) # NoMatch}
    IN  IF text = <<>> \/ StartsWithErrorOrAPI(text) \/ yielding = {} THEN ""
        ELSE LowerTok(text[CHOOSE i \in yielding : \A j \in yielding : i <= j].head)

IdentifiedOk == extracted.fn = "identify" /\ content.outcome = "ok"

\* C29: the two extractors of the single-stage detector agree: when
\* extract_primary_id takes its value from a plant-species or disease-name
\* bullet extract_subject_type returns "plant", when it takes it from an
\* insect-species bullet extract_subject_type returns "pest", and
\* extract_subject_type returns "unknown" only when extract_primary_id returns
\* "Unidentified".
C29_ExtractorsAgree ==
    IdentifiedOk =>
        LET text         == content.result
            subject_type == extracted.value[2]
            primary_id   == extracted.value[3]
        IN  /\ PrimarySource(text) \in {PREFIX_PLANT, PREFIX_DISEASE} => subject_type = "plant"
            /\ PrimarySource(text) = PREFIX_INSECT => subject_type = "pest"
            /\ subject_type = "unknown" => primary_id = Unidentified

=============================================================================
